---- MODULE Spec2Model ----
(***************************************************************************)
(* Tiered RAG chat pipeline: relevance judge, grounded / web answer        *)
(* generators, the chat route that composes them, and the review queue     *)
(* (admin_queue) written by the fire-and-forget addToAdminQueue task and    *)
(* by the administrator routes.                                            *)
(*                                                                         *)
(* Three specifications share the definitions below:                       *)
(*   Spec      - one request through the chat route, end to end;           *)
(*   SpecGen   - the two answer generators alone, over richer streams;     *)
(*   SpecQueue - concurrent addToAdminQueue tasks and administrator        *)
(*               operations on the shared tables.                          *)
(***************************************************************************)
EXTENDS Integers, Sequences, FiniteSets, TLC

\* ------------------------------------------------------------------------
\* Bounds of the model
\* ------------------------------------------------------------------------
MaxChunks == 2      \* chunks the underlying generation stream may deliver
NumTasks == 2       \* addToAdminQueue tasks that may be in flight together
MaxAdminOps == 1    \* administrator requests served in one run
NumAdminReqs == 2   \* knowledge-base requests of administrators that may overlap

\* ------------------------------------------------------------------------
\* Program constants
\* ------------------------------------------------------------------------
InboxMatchThreshold == 85   \* match_threshold: 0.85, in hundredths
InboxMatchCount == 1        \* match_count: 1
KbMatchThreshold == 50      \* match_threshold: 0.50, in hundredths
KbMatchCount == 5           \* match_count: 5

NULL == "NULL"
NullVector == << >>         \* a NULL embedding column

\* ------------------------------------------------------------------------
\* JavaScript string methods used by the code
\* ------------------------------------------------------------------------
LowerCaseLetters == "abcdefghijklmnopqrstuvwxyz"
UpperCaseLetters == "ABCDEFGHIJKLMNOPQRSTUVWXYZ"

CharAt(s, i) == SubSeq(s, i, i)

UpperChar(c) ==
    IF \E i \in 1..Len(LowerCaseLetters) : CharAt(LowerCaseLetters, i) = c
    THEN CharAt(UpperCaseLetters,
                CHOOSE i \in 1..Len(LowerCaseLetters) : CharAt(LowerCaseLetters, i) = c)
    ELSE c

RECURSIVE UpperFrom(_, _)
UpperFrom(s, i) ==
    IF i > Len(s) THEN "" ELSE UpperChar(CharAt(s, i)) \o UpperFrom(s, i + 1)

toUpperCase(s) == UpperFrom(s, 1)

IsWhiteSpace(c) == c \in {" ", "\n", "\t"}

RECURSIVE trimStart(_)
trimStart(s) ==
    IF Len(s) > 0 /\ IsWhiteSpace(CharAt(s, 1))
    THEN trimStart(SubSeq(s, 2, Len(s)))
    ELSE s

RECURSIVE trimEnd(_)
trimEnd(s) ==
    IF Len(s) > 0 /\ IsWhiteSpace(CharAt(s, Len(s)))
    THEN trimEnd(SubSeq(s, 1, Len(s) - 1))
    ELSE s

trim(s) == trimEnd(trimStart(s))

\* indexOf scan: position of the first occurrence of t in s from i, 0 if none
RECURSIVE indexOfFrom(_, _, _)
indexOfFrom(s, t, i) ==
    IF i + Len(t) - 1 > Len(s) THEN 0
    ELSE IF SubSeq(s, i, i + Len(t) - 1) = t THEN i
    ELSE indexOfFrom(s, t, i + 1)

includes(s, t) == indexOfFrom(s, t, 1) # 0

\* ------------------------------------------------------------------------
\* Embeddings and cosine similarity (pgvector  1 - (a <=> b))
\* ------------------------------------------------------------------------
RECURSIVE DotFrom(_, _, _)
DotFrom(a, b, i) ==
    IF i > Len(a) THEN 0 ELSE a[i] * b[i] + DotFrom(a, b, i + 1)

Dot(a, b) == DotFrom(a, b, 1)

\* the threshold test written with > in place of >=
SimilarityAbove(a, b, pct) ==
    /\ Dot(a, b) >= 0
    /\ Dot(a, b) * Dot(a, b) * 100 * 100 > pct * pct * Dot(a, a) * Dot(b, b)

\* 1 - (a <=> b) >= pct / 100, decided exactly on integers
SimilarityAtLeast(a, b, pct) ==
    /\ Dot(a, b) >= 0
    /\ Dot(a, b) * Dot(a, b) * 100 * 100 >= pct * pct * Dot(a, a) * Dot(b, b)

\* (a <=> q) < (b <=> q): a is strictly nearer to q than b
Nearer(a, b, q) ==
    LET da == Dot(a, q)
        db == Dot(b, q)
    IN  IF da >= 0 /\ db < 0 THEN TRUE
        ELSE IF da < 0 /\ db >= 0 THEN FALSE
        ELSE IF da >= 0 THEN da * da * Dot(b, b) > db * db * Dot(a, a)
        ELSE da * da * Dot(b, b) < db * db * Dot(a, a)

\* ORDER BY embedding <=> q LIMIT k over a set of rows
RECURSIVE NearestFirst(_, _, _)
NearestFirst(rows, q, k) ==
    IF rows = {} \/ k = 0 THEN << >>
    ELSE LET best == CHOOSE r \in rows :
                        \A s \in rows : ~Nearer(s.embedding, r.embedding, q)
         IN  << best >> \o NearestFirst(rows \ {best}, q, k - 1)

\* Question texts a caller may send, and the embedding provider's vector for
\* each (text-embedding-3-small returns vectors of one common length).
Questions == {"q0", "q1", "q2", "q3", " q2 "}

generateEmbedding(text) ==
    CASE text = "q0"   -> << 0, 0, 0, 20, 0 >>
      [] text = "q1"   -> << 20, 0, 0, 0, 0 >>
      [] text = "q2"   -> << 18, 6, 6, 2, 0 >>
      [] text = " q2 " -> << 18, 6, 6, 2, 0 >>
      [] text = "q3"   -> << 17, 3, -1, 1, 10 >>
      [] text = "k4"   -> << 16, 12, 0, 0, 0 >>
      [] text = "k5"   -> << 16, 0, 12, 0, 0 >>
      [] text = "k6"   -> << 12, 16, 0, 0, 0 >>
      [] text = "k7"   -> << 10, 10, 10, 10, 0 >>
      [] text = "k8"   -> << 8, 4, 8, 16, 0 >>
      [] OTHER         -> << 0, 20, 0, 0, 0 >>

\* ------------------------------------------------------------------------
\* Tables
\* ------------------------------------------------------------------------
\* questions of knowledge entries
KnowledgeTexts == << "q1", "q2", "q3", "k4", "k5", "k6", "k7", "k8", "q0" >>

\* knowledge_base rows present before the first request
KnowledgeInit ==
    { [id |-> 1, question |-> "q1", answer |-> "a1",
       embedding |-> generateEmbedding("q1")],
      [id |-> 2, question |-> "q3", answer |-> "a3",
       embedding |-> generateEmbedding("q3")] }

\* ORDER BY embedding <=> q LIMIT k with rows at equal distance in any order:
\* every result the store may give
RECURSIVE NearestFirstAny(_, _, _)
NearestFirstAny(rows, q, k) ==
    IF rows = {} \/ k = 0 THEN { << >> }
    ELSE UNION { { << best >> \o rest : rest \in NearestFirstAny(rows \ {best}, q, k - 1) } :
                 best \in { r \in rows :
                              \A o \in rows : ~Nearer(o.embedding, r.embedding, q) } }

\* match_documents without its LIMIT
match_documentsNoLimit(kb, query_embedding, match_threshold, match_count) ==
    NearestFirstAny({ r \in kb : /\ r.embedding # NullVector
                                 /\ SimilarityAtLeast(r.embedding, query_embedding,
                                                      match_threshold) },
                    query_embedding, Cardinality(kb))

\* the results match_documents may return
match_documents(kb, query_embedding, match_threshold, match_count) ==
    NearestFirstAny({ r \in kb : /\ r.embedding # NullVector
                                 /\ SimilarityAtLeast(r.embedding, query_embedding,
                                                      match_threshold) },
                    query_embedding, match_count)

\* the WHERE clause without its status filter
InboxRowMatchesAnyStatus(aq, query_embedding, match_threshold) ==
    /\ aq.embedding # NullVector
    /\ SimilarityAtLeast(aq.embedding, query_embedding, match_threshold)

InboxRowMatches(aq, query_embedding, match_threshold) ==
    /\ aq.embedding # NullVector
    /\ aq.status = "pending"
    /\ SimilarityAtLeast(aq.embedding, query_embedding, match_threshold)

\* a check that finds only rows holding the very same vector
match_inbox_questionsExactOnly(queue, query_embedding, match_threshold, match_count) ==
    NearestFirst({ aq \in queue : aq.status = "pending" /\ aq.embedding = query_embedding },
                 query_embedding, match_count)

match_inbox_questions(queue, query_embedding, match_threshold, match_count) ==
    NearestFirst({ aq \in queue : InboxRowMatches(aq, query_embedding, match_threshold) },
                 query_embedding, match_count)

\* ------------------------------------------------------------------------
\* The judge's decision rule on the model's reply
\* ------------------------------------------------------------------------
JudgeReplies ==
    { "YES", "NO", "", "yes", " Yes.\n", "no", "YES, but also NO",
      "NO - not YES", "I do not know", "Yes, now", "Y", "maybe", "eyes" }

\* the rule without its NO test
JudgeDecisionYesOnly(rawResponse0) ==
    IF includes(toUpperCase(trim(rawResponse0)), "YES") THEN "YES" ELSE "NO"

JudgeDecision(rawResponse0) ==
    LET response0 == toUpperCase(trim(rawResponse0))
        isRelevant == includes(response0, "YES") /\ ~includes(response0, "NO")
    IN  IF isRelevant THEN "YES" ELSE "NO"

\* ------------------------------------------------------------------------
\* State
\* ------------------------------------------------------------------------
VARIABLES
    pc,              \* position of the chat route's POST handler
    question,        \* the request's question
    queryEmbedding,  \* const queryEmbedding
    dbChunks,        \* const dbChunks
    judgment,        \* const judgment
    judge,           \* the judge call: how it ended and the raw reply
    response,        \* what the handler returned: 401, 400, 500 or the stream
    streamState,     \* the ReadableStream's controller
    calls,           \* external calls issued by the handler so far, and how many
                     \* of the embedding and search calls failed
    gen,             \* the running answer generator
    admin_queue,     \* table admin_queue
    knowledge_base,  \* table knowledge_base
    uniqueQuestion,  \* whether admin_queue carries the UNIQUE question constraint
    nextId,          \* gen_random_uuid() for admin_queue rows
    nextKbId,        \* gen_random_uuid() for knowledge_base rows
    tasks,           \* the detached addToAdminQueue tasks
    adminOps,        \* administrator requests served so far
    adminResponse,   \* status of the last administrator request
    adminReqs,       \* knowledge-base requests of administrators, await by await
    history          \* what has happened to the queue writers so far

pipeVars == << pc, question, queryEmbedding, dbChunks, judgment, judge, response,
               streamState, calls >>
storeVars == << admin_queue, knowledge_base, uniqueQuestion, nextId, nextKbId >>
adminVars == << adminOps, adminResponse, adminReqs >>
vars == << pc, question, queryEmbedding, dbChunks, judgment, judge, response,
           streamState, calls, gen, admin_queue, knowledge_base, uniqueQuestion,
           nextId, nextKbId, tasks, adminOps, adminResponse, adminReqs, history >>

Tasks == 1..NumTasks
AdminSlots == 1..NumAdminReqs

\* a knowledge-base request that has not arrived yet
ReqIdle ==
    [op |-> "none", rpc |-> "idle", id |-> 0, question |-> "", embedding |-> NullVector,
     queueId |-> 0, entries |-> << >>, status |-> "none", failure |-> "none",
     kbWritten |-> FALSE, queueWritten |-> FALSE]

\* ------------------------------------------------------------------------
\* Answer generators (async generators of lib/gemini)
\* ------------------------------------------------------------------------
InternalFooter == "\n\n---\n**Source:** Database (Internal Knowledge Base)"
InternalError == "I encountered an error generating the answer."
WebSourcesHeader == "\n\n---\n**Sources:**\n"
WebGenericFooter == "\n\n---\n**Source:** Google Search"
WebError == "I encountered an error searching for the answer."

\* chunk.text() values and groundingChunks lists the generation stream may
\* deliver; "" stands for an absent or empty field.
Texts == {"", "a", "b"}
Cite(u, t) == [web |-> [uri |-> u, title |-> t]]
Groundings ==
    { << >>,
      << Cite("u1", "T1") >>,
      << Cite("u1", "T2") >>,
      << Cite("u2", "T3"), Cite("u1", "T1") >>,
      << Cite("u1", ""), Cite("", "T4") >> }
RouteTexts == {"", "a"}
RouteGroundings == { << >>, << Cite("u1", "T1") >> }

GenIdle ==
    [kind |-> "none", gpc |-> "idle", out |-> << >>, sources |-> << >>,
     uniqueSources |-> << >>, i |-> 0, raw |-> << >>, cited |-> << >>,
     started |-> 0, ended |-> FALSE, failed |-> FALSE, threw |-> FALSE,
     returned |-> FALSE, outAtCancel |-> -1, rawAtCancel |-> -1]

\* the generator body up to  await model.generateContentStream(...)
GenStart(kind) ==
    [GenIdle EXCEPT !.kind = kind, !.gpc = "calling", !.started = 1]

\* a generator that lets the failure escape instead of yielding the error line
GenOnFailureRethrow(g) ==
    [g EXCEPT !.gpc = "done", !.failed = TRUE, !.threw = TRUE]

\* a generator whose footer stands after the try block
GenOnFailureWithFooter(g) ==
    [g EXCEPT !.out = @ \o << IF g.kind = "internal" THEN InternalError ELSE WebError,
                              IF g.kind = "internal" THEN InternalFooter
                              ELSE WebGenericFooter >>,
              !.gpc = "done",
              !.failed = TRUE]

\* catch (error) { yield "<error string>"; }
GenOnFailure(g) ==
    [g EXCEPT !.out = Append(@, IF g.kind = "internal" THEN InternalError ELSE WebError),
              !.gpc = "done",
              !.failed = TRUE]

\* sources.push(newSource) for every citation, as streamAnswer does
RECURSIVE CaptureEveryCitation(_, _, _)
CaptureEveryCitation(sources, groundingChunks, k) ==
    IF k > Len(groundingChunks) THEN sources
    ELSE LET c == groundingChunks[k]
         IN  CaptureEveryCitation(
                 IF c.web.uri # "" /\ c.web.title # ""
                 THEN Append(sources, [title |-> c.web.title, url |-> c.web.uri])
                 ELSE sources,
                 groundingChunks, k + 1)

\* sources.push(newSource) unless a source with that url is already held
RECURSIVE CaptureCitations(_, _, _)
CaptureCitations(sources, groundingChunks, k) ==
    IF k > Len(groundingChunks) THEN sources
    ELSE LET c == groundingChunks[k]
             newSource == [title |-> c.web.title, url |-> c.web.uri]
             found == \E n \in 1..Len(sources) : sources[n].url = newSource.url
         IN  CaptureCitations(
                 IF c.web.uri # "" /\ c.web.title # "" /\ ~found
                 THEN Append(sources, newSource)
                 ELSE sources,
                 groundingChunks, k + 1)

\* an iteration that yields only while chunkCount <= 1, the way the log line is guarded
GenOnChunkFirstOnly(g, text, groundingChunks) ==
    [g EXCEPT !.raw = Append(@, text),
              !.cited = @ \o groundingChunks,
              !.out = IF text # "" /\ Len(g.out) < 1 THEN Append(@, text) ELSE @]

\* one iteration of  for await (const chunk of result.stream)
GenOnChunk(g, text, groundingChunks) ==
    [g EXCEPT !.raw = Append(@, text),
              !.cited = @ \o groundingChunks,
              !.out = IF text # "" THEN Append(@, text) ELSE @,
              !.sources = IF g.kind = "web"
                          THEN CaptureCitations(@, groundingChunks, 1)
                          ELSE @]

\* Array.from(new Map(sources.map(s => [s.url, s])).values()): a key keeps the
\* position of its first entry and the value of its last
RECURSIVE MapValues(_, _, _)
MapValues(acc, sources, k) ==
    IF k > Len(sources) THEN acc
    ELSE LET s == sources[k]
             at == { n \in 1..Len(acc) : acc[n].url = s.url }
         IN  MapValues(IF at = {} THEN Append(acc, s)
                       ELSE [acc EXCEPT ![CHOOSE n \in at : TRUE] = s],
                       sources, k + 1)

SourceLine(i, s) == ToString(i + 1) \o ". [" \o s.title \o "](" \o s.url \o ")\n"

\* the end of the loop with the test  sources.length >= 0
GenOnEndAlwaysList(g) ==
    IF g.kind = "internal"
    THEN [g EXCEPT !.ended = TRUE, !.gpc = "done", !.out = Append(@, InternalFooter)]
    ELSE [g EXCEPT !.ended = TRUE, !.gpc = "footer",
                   !.uniqueSources = g.sources,
                   !.i = 0,
                   !.out = Append(@, WebSourcesHeader)]

\* the code after the for-await loop has ended normally
GenOnEnd(g) ==
    IF g.kind = "internal"
    THEN [g EXCEPT !.ended = TRUE, !.gpc = "done", !.out = Append(@, InternalFooter)]
    ELSE IF Len(g.sources) > 0
    THEN [g EXCEPT !.ended = TRUE, !.gpc = "footer",
                   !.uniqueSources = MapValues(<< >>, g.sources, 1),
                   !.i = 0,
                   !.out = Append(@, WebSourcesHeader)]
    ELSE [g EXCEPT !.ended = TRUE, !.gpc = "done", !.out = Append(@, WebGenericFooter)]

\* for (let i = 0; i < uniqueSources.length; i++) yield `${i + 1}. [..](..)\n`
GenOnFooterLine(g) ==
    IF g.i < Len(g.uniqueSources)
    THEN [g EXCEPT !.out = Append(@, SourceLine(g.i, g.uniqueSources[g.i + 1])),
                   !.i = @ + 1]
    ELSE [g EXCEPT !.gpc = "done"]

\* a loop body whose controller.enqueue never throws
ConsumeIgnoringCancel(g0, g1, state) == g1

\* the body of  for await (const chunk of generate...)  in start(controller):
\* controller.enqueue(encoder.encode(chunk)) for an element the step from g0 to
\* g1 yielded.  On a cancelled stream enqueue throws a TypeError; leaving the
\* loop that way calls return() on the generator, which ends it where it stands.
Consume(g0, g1, state) ==
    IF state = "cancelled" /\ Len(g1.out) > Len(g0.out)
    THEN [g1 EXCEPT !.gpc = "done", !.returned = TRUE]
    ELSE g1

GenCallReturn ==
    /\ gen.gpc = "calling"
    /\ gen' = [gen EXCEPT !.gpc = "streaming"]
    /\ UNCHANGED << pipeVars, storeVars, tasks, adminVars, history >>

GenCallThrow ==
    /\ gen.gpc = "calling"
    /\ gen' = Consume(gen, GenOnFailure(gen), streamState)
    /\ UNCHANGED << pipeVars, storeVars, tasks, adminVars, history >>

GenChunk(T, G) ==
    /\ gen.gpc = "streaming"
    /\ Len(gen.raw) < MaxChunks
    /\ \E text \in T, g \in G :
          gen' = Consume(gen, GenOnChunk(gen, text, IF gen.kind = "web" THEN g ELSE << >>),
                         streamState)
    /\ UNCHANGED << pipeVars, storeVars, tasks, adminVars, history >>

GenStreamEnd ==
    /\ gen.gpc = "streaming"
    /\ gen' = Consume(gen, GenOnEnd(gen), streamState)
    /\ UNCHANGED << pipeVars, storeVars, tasks, adminVars, history >>

GenStreamThrow ==
    /\ gen.gpc = "streaming"
    /\ gen' = Consume(gen, GenOnFailure(gen), streamState)
    /\ UNCHANGED << pipeVars, storeVars, tasks, adminVars, history >>

GenFooterLine ==
    /\ gen.gpc = "footer"
    /\ gen' = Consume(gen, GenOnFooterLine(gen), streamState)
    /\ UNCHANGED << pipeVars, storeVars, tasks, adminVars, history >>

\* ------------------------------------------------------------------------
\* addToAdminQueue: the detached duplicate check and insert
\* ------------------------------------------------------------------------
TaskIdle ==
    [tpc |-> "idle", question |-> "", embedding |-> NullVector, outcome |-> "none",
     checkError |-> FALSE, overlapped |-> FALSE]

Busy(t) == { u \in Tasks \ {t} : tasks[u].tpc \in {"check", "insert"} }

\* addToAdminQueue(question, questionEmbedding): the async closure runs up to
\* its first await, the match_inbox_questions call
addToAdminQueue(t, q, e) ==
    /\ tasks' = [u \in Tasks |->
                   IF u = t
                   THEN [TaskIdle EXCEPT !.tpc = "check", !.question = q, !.embedding = e,
                                         !.overlapped = (Busy(t) # {})]
                   ELSE IF u \in Busy(t) THEN [tasks[u] EXCEPT !.overlapped = TRUE]
                   ELSE tasks[u]]
    /\ history' = [history EXCEPT !.concurrent = @ \/ (Busy(t) # {})]

\* the duplicate test written  similarInboxQuestions.length > 1
AfterInboxCheckOffByOne(task, result, similarInboxQuestions) ==
    CASE result = "throw" -> [task EXCEPT !.tpc = "done", !.outcome = "threw"]
      [] result = "error" -> [task EXCEPT !.tpc = "insert", !.checkError = TRUE]
      [] OTHER ->
           IF Len(similarInboxQuestions) > 1
           THEN [task EXCEPT !.tpc = "done", !.outcome = "duplicate"]
           ELSE [task EXCEPT !.tpc = "insert"]

\* a task that gives up when the check returns an error
AfterInboxCheckErrorStops(task, result, similarInboxQuestions) ==
    CASE result = "throw" -> [task EXCEPT !.tpc = "done", !.outcome = "threw"]
      [] result = "error" -> [task EXCEPT !.tpc = "done", !.checkError = TRUE,
                                          !.outcome = "threw"]
      [] OTHER ->
           IF Len(similarInboxQuestions) > 0
           THEN [task EXCEPT !.tpc = "done", !.outcome = "duplicate"]
           ELSE [task EXCEPT !.tpc = "insert"]

\* the task after the rpc has answered: data, an error result, or a rejection
AfterInboxCheck(task, result, similarInboxQuestions) ==
    CASE result = "throw" -> [task EXCEPT !.tpc = "done", !.outcome = "threw"]
      [] result = "error" -> [task EXCEPT !.tpc = "insert", !.checkError = TRUE]
      [] OTHER ->
           IF Len(similarInboxQuestions) > 0
           THEN [task EXCEPT !.tpc = "done", !.outcome = "duplicate"]
           ELSE [task EXCEPT !.tpc = "insert"]

EnqueueCheck(t) ==
    /\ tasks[t].tpc = "check"
    /\ \E result \in {"data", "error", "throw"} :
          /\ tasks' = [tasks EXCEPT ![t] =
                         AfterInboxCheck(tasks[t], result,
                             match_inbox_questions(admin_queue, tasks[t].embedding,
                                                   InboxMatchThreshold, InboxMatchCount))]
          /\ history' = [history EXCEPT !.checkError = @ \/ (result = "error")]
    /\ UNCHANGED << pipeVars, gen, storeVars, adminVars >>

\* the row  { user_question: question.trim(), status: 'pending', embedding }
NewQueueRow(id, task) ==
    [id |-> id, user_question |-> trim(task.question), status |-> "pending",
     embedding |-> task.embedding, resolved_at |-> NULL]

\* a constraint that looks at the pending rows only
DuplicateKeyPendingOnly(queue, unique, text) ==
    unique /\ \E r \in queue : r.status = "pending" /\ r.user_question = text

\* error code 23505: the UNIQUE constraint on the question text is violated
DuplicateKey(queue, unique, text) ==
    unique /\ \E r \in queue : r.user_question = text

\* a task whose rejected insert is raised into the response stream
EnqueueInsertSurfacing(t) ==
    /\ tasks[t].tpc = "insert"
    /\ \E result \in {"ok", "error", "throw"} :
          LET dup == DuplicateKey(admin_queue, uniqueQuestion, trim(tasks[t].question))
              outcome == CASE result = "throw" -> "threw"
                           [] result = "error" -> "insertError"
                           [] dup -> "duplicateKey"
                           [] OTHER -> "inserted"
          IN  /\ tasks' = [tasks EXCEPT ![t].tpc = "done", ![t].outcome = outcome]
              /\ IF outcome = "inserted"
                 THEN /\ admin_queue' = admin_queue \cup {NewQueueRow(nextId, tasks[t])}
                      /\ nextId' = nextId + 1
                 ELSE UNCHANGED << admin_queue, nextId >>
              /\ streamState' = IF outcome = "threw" /\ streamState = "open"
                                THEN "errored" ELSE streamState
    /\ UNCHANGED << pc, question, queryEmbedding, dbChunks, judgment, judge, response,
                    calls, gen, knowledge_base, uniqueQuestion, nextKbId, adminVars,
                    history >>

EnqueueInsert(t) ==
    /\ tasks[t].tpc = "insert"
    /\ \E result \in {"ok", "error", "throw"} :
          LET dup == DuplicateKey(admin_queue, uniqueQuestion, trim(tasks[t].question))
              outcome == CASE result = "throw" -> "threw"
                           [] result = "error" -> "insertError"
                           [] dup -> "duplicateKey"
                           [] OTHER -> "inserted"
          IN  /\ tasks' = [tasks EXCEPT ![t].tpc = "done", ![t].outcome = outcome]
              /\ IF outcome = "inserted"
                 THEN /\ admin_queue' = admin_queue \cup {NewQueueRow(nextId, tasks[t])}
                      /\ nextId' = nextId + 1
                 ELSE UNCHANGED << admin_queue, nextId >>
    /\ UNCHANGED << pipeVars, gen, knowledge_base, uniqueQuestion, nextKbId, adminVars,
                    history >>

\* ------------------------------------------------------------------------
\* The chat route: POST /api/chat
\* ------------------------------------------------------------------------
Finish(status) ==
    /\ response' = status
    /\ pc' = "done"

\* a handler that looks at the session only after asking for the embedding
PostStartLateSessionCheck ==
    /\ pc = "idle"
    /\ \E session \in BOOLEAN, q \in Questions \cup {""} :
          IF q = ""
          THEN Finish("400") /\ UNCHANGED << question, calls >>
          ELSE IF ~session
          THEN /\ Finish("401")
               /\ calls' = [calls EXCEPT !.embed = @ + 1]
               /\ UNCHANGED question
          ELSE /\ question' = q
               /\ calls' = [calls EXCEPT !.embed = @ + 1]
               /\ pc' = "embedding"
               /\ UNCHANGED response
    /\ UNCHANGED << queryEmbedding, dbChunks, judgment, judge, streamState, gen,
                    storeVars, tasks, adminVars, history >>

PostStart ==
    /\ pc = "idle"
    /\ \E session \in BOOLEAN, q \in Questions \cup {""} :
          IF ~session
          THEN Finish("401") /\ UNCHANGED << question, calls >>
          ELSE IF q = ""
          THEN Finish("400") /\ UNCHANGED << question, calls >>
          ELSE /\ question' = q
               /\ calls' = [calls EXCEPT !.embed = @ + 1]
               /\ pc' = "embedding"
               /\ UNCHANGED response
    /\ UNCHANGED << queryEmbedding, dbChunks, judgment, judge, streamState, gen,
                    storeVars, tasks, adminVars, history >>

EmbeddingReturn ==
    /\ pc = "embedding"
    /\ queryEmbedding' = generateEmbedding(question)
    /\ calls' = [calls EXCEPT !.search = @ + 1]
    /\ pc' = "retrieving"
    /\ UNCHANGED << question, dbChunks, judgment, judge, response, streamState, gen,
                    storeVars, tasks, adminVars, history >>

EmbeddingThrow ==
    /\ pc = "embedding"
    /\ calls' = [calls EXCEPT !.failed = @ + 1]
    /\ Finish("500")
    /\ UNCHANGED << question, queryEmbedding, dbChunks, judgment, judge, streamState,
                    gen, storeVars, tasks, adminVars, history >>

\* matches?.map((match) => match.answer || match.content) || []
\* (match_documents returns no content column: match.content is undefined)
ChunksOf(matches) ==
    [n \in 1..Len(matches) |->
        IF matches[n].answer # "" THEN matches[n].answer ELSE NULL]

RetrieveReturn ==
    /\ pc = "retrieving"
    /\ \E matches \in match_documents(knowledge_base, queryEmbedding,
                                       KbMatchThreshold, KbMatchCount) :
          dbChunks' = ChunksOf(matches)
    /\ pc' = "judging"
    /\ UNCHANGED << question, queryEmbedding, judgment, judge, response, streamState,
                    calls, gen, storeVars, tasks, adminVars, history >>

\* a route that treats a failed search as a search without matches
RetrieveErrorAsNoMatches ==
    /\ pc = "retrieving"
    /\ calls' = [calls EXCEPT !.failed = @ + 1]
    /\ dbChunks' = << >>
    /\ pc' = "judging"
    /\ UNCHANGED << question, queryEmbedding, judgment, judge, response, streamState,
                    gen, storeVars, tasks, adminVars, history >>

\* if (searchError) return 500
RetrieveError ==
    /\ pc = "retrieving"
    /\ calls' = [calls EXCEPT !.failed = @ + 1]
    /\ Finish("500")
    /\ UNCHANGED << question, queryEmbedding, dbChunks, judgment, judge, streamState,
                    gen, storeVars, tasks, adminVars, history >>

\* a route that asks the judge whatever was retrieved
JudgeNeededAlways(chunks) == Len(chunks) >= 0

\* dbChunks.length > 0 ? await judgeContextRelevance(question, dbChunks) : 'NO'
JudgeNeeded(chunks) == Len(chunks) > 0

\* a route that starts the web generation while the judge is still deciding
JudgeStartWithSpeculativeWeb ==
    /\ pc = "judging"
    /\ IF JudgeNeeded(dbChunks)
       THEN /\ calls' = [calls EXCEPT !.judge = @ + 1, !.web = @ + 1]
            /\ pc' = "judgeWait"
            /\ UNCHANGED << judgment, judge >>
       ELSE /\ judgment' = "NO"
            /\ judge' = [outcome |-> "skipped", rawResponse |-> NULL]
            /\ pc' = "judged"
            /\ UNCHANGED calls
    /\ UNCHANGED << question, queryEmbedding, dbChunks, response, streamState, gen,
                    storeVars, tasks, adminVars, history >>

JudgeStart ==
    /\ pc = "judging"
    /\ IF JudgeNeeded(dbChunks)
       THEN /\ calls' = [calls EXCEPT !.judge = @ + 1]
            /\ pc' = "judgeWait"
            /\ UNCHANGED << judgment, judge >>
       ELSE /\ judgment' = "NO"
            /\ judge' = [outcome |-> "skipped", rawResponse |-> NULL]
            /\ pc' = "judged"
            /\ UNCHANGED calls
    /\ UNCHANGED << question, queryEmbedding, dbChunks, response, streamState, gen,
                    storeVars, tasks, adminVars, history >>

JudgeReturn ==
    /\ pc = "judgeWait"
    /\ \E rawResponse \in JudgeReplies :
          /\ judge' = [outcome |-> "replied", rawResponse |-> rawResponse]
          /\ judgment' = JudgeDecision(rawResponse)
    /\ pc' = "judged"
    /\ UNCHANGED << question, queryEmbedding, dbChunks, response, streamState, calls,
                    gen, storeVars, tasks, adminVars, history >>

\* a judge that fails open
JudgeOnErrorFailOpen == "YES"

\* catch (error) { return 'NO'; }
JudgeOnError == "NO"

JudgeThrow ==
    /\ pc = "judgeWait"
    /\ judge' = [outcome |-> "failed", rawResponse |-> NULL]
    /\ judgment' = JudgeOnError
    /\ pc' = "judged"
    /\ UNCHANGED << question, queryEmbedding, dbChunks, response, streamState, calls,
                    gen, storeVars, tasks, adminVars, history >>

\* a route that ignores the verdict
GeneratorForAny(j) == "web"

\* which generator start(controller) runs for a judgment
GeneratorFor(j) == IF j = "YES" THEN "internal" ELSE "web"

\* a route that never hands the question to the queue
EnqueueFiredForNone(kind) == FALSE

\* a route that hands every question to the queue
EnqueueFiredForAny(kind) == kind \in {"internal", "web"}

\* addToAdminQueue(question, queryEmbedding) stands in the else branch only
EnqueueFiredFor(kind) == kind = "web"

\* new ReadableStream({ start }) and return new Response(stream)
StreamStart ==
    /\ pc = "judged"
    /\ response' = "stream"
    /\ streamState' = "open"
    /\ gen' = GenStart(GeneratorFor(judgment))
    /\ IF EnqueueFiredFor(GeneratorFor(judgment))
       THEN /\ addToAdminQueue(1, question, queryEmbedding)
            /\ calls' = [calls EXCEPT !.enqueue = @ + 1,
                                      ![GeneratorFor(judgment)] = @ + 1]
       ELSE /\ calls' = [calls EXCEPT ![GeneratorFor(judgment)] = @ + 1]
            /\ UNCHANGED << tasks, history >>
    /\ pc' = "streaming"
    /\ UNCHANGED << question, queryEmbedding, dbChunks, judgment, judge, storeVars,
                    adminVars >>

\* a route that closes the stream only once the enqueue has finished
StreamCloseAfterEnqueue ==
    /\ pc = "streaming"
    /\ gen.gpc = "done"
    /\ \A t \in Tasks : tasks[t].tpc \in {"idle", "done"}
    /\ streamState' = IF streamState = "cancelled" THEN "cancelled"
                      ELSE IF gen.threw THEN "errored" ELSE "closed"
    /\ pc' = "done"
    /\ UNCHANGED << question, queryEmbedding, dbChunks, judgment, judge, response,
                    calls, gen, storeVars, tasks, adminVars, history >>

\* a start(controller) that returns without closing the stream
StreamCloseForgotten ==
    /\ pc = "streaming"
    /\ gen.gpc = "done"
    /\ pc' = "done"
    /\ UNCHANGED << question, queryEmbedding, dbChunks, judgment, judge, response,
                    streamState, calls, gen, storeVars, tasks, adminVars, history >>

\* controller.close(), or controller.error(error) when the loop threw; on a
\* cancelled stream close() throws and error() changes nothing
StreamClose ==
    /\ pc = "streaming"
    /\ gen.gpc = "done"
    /\ streamState' = IF streamState = "cancelled" THEN "cancelled"
                      ELSE IF gen.threw THEN "errored" ELSE "closed"
    /\ pc' = "done"
    /\ UNCHANGED << question, queryEmbedding, dbChunks, judgment, judge, response,
                    calls, gen, storeVars, tasks, adminVars, history >>

\* a stream whose cancellation aborts the detached tasks
UnderlyingSourceCancelAborting(ts) ==
    [t \in Tasks |-> IF ts[t].tpc \in {"check", "insert"}
                     THEN [ts[t] EXCEPT !.tpc = "aborted"]
                     ELSE ts[t]]

\* new ReadableStream({ async start(controller) {...} }): the underlying source
\* has no cancel(), so a cancellation reaches neither the loop nor the tasks
UnderlyingSourceCancel(ts) == ts

\* the caller goes away while the response streams: the stream is cancelled
Disconnect ==
    /\ pc = "streaming"
    /\ streamState = "open"
    /\ streamState' = "cancelled"
    /\ gen' = [gen EXCEPT !.outAtCancel = Len(gen.out), !.rawAtCancel = Len(gen.raw)]
    /\ tasks' = UnderlyingSourceCancel(tasks)
    /\ history' = [history EXCEPT !.cancelledWhileBusy =
                      \E t \in Tasks : tasks[t].tpc \in {"check", "insert"}]
    /\ UNCHANGED << pc, question, queryEmbedding, dbChunks, judgment, judge, response,
                    calls, storeVars, adminVars >>

\* ------------------------------------------------------------------------
\* Administrator routes on the shared tables
\* ------------------------------------------------------------------------
AdminQuestions == {"q2 "}

\* the status update without its resolved_at
ResolveRowWithoutTimestamp(queue, queueId) ==
    { IF r.id = queueId THEN [r EXCEPT !.status = "resolved"] ELSE r : r \in queue }

\* .update({ status: 'resolved', resolved_at: now }).eq('id', queueId)
ResolveRow(queue, queueId) ==
    { IF r.id = queueId
      THEN [r EXCEPT !.status = "resolved", !.resolved_at = "now"]
      ELSE r : r \in queue }

\* POST /api/admin/knowledge { question, answer, queueId }
KnowledgePost ==
    /\ adminOps < MaxAdminOps
    /\ adminOps' = adminOps + 1
    /\ \E isAdmin \in BOOLEAN, q \in AdminQuestions,
          queueId \in {r.id : r \in admin_queue} \cup {0},   \* 0: no queueId sent
          result \in {"ok", "embeddingThrow", "kbError", "queueUpdateError"} :
          IF ~isAdmin
          THEN adminResponse' = "401" /\ UNCHANGED storeVars
          ELSE IF result \in {"embeddingThrow", "kbError"}
          THEN adminResponse' = "500" /\ UNCHANGED storeVars
          ELSE /\ knowledge_base' = knowledge_base \cup
                     {[id |-> nextKbId, question |-> trim(q), answer |-> trim(" ans"),
                       embedding |-> generateEmbedding(q)]}
               /\ nextKbId' = nextKbId + 1
               /\ admin_queue' = IF queueId # 0 /\ result = "ok"
                                 THEN ResolveRow(admin_queue, queueId)
                                 ELSE admin_queue
               /\ adminResponse' = "200"
               /\ UNCHANGED << uniqueQuestion, nextId >>
    /\ UNCHANGED << pipeVars, gen, tasks, history, adminReqs >>

\* DELETE /api/admin/queue?id=
QueueDelete ==
    /\ adminOps < MaxAdminOps
    /\ adminOps' = adminOps + 1
    /\ \E isAdmin \in BOOLEAN, id \in {r.id : r \in admin_queue}, ok \in BOOLEAN :
          IF ~isAdmin
          THEN adminResponse' = "401" /\ UNCHANGED admin_queue
          ELSE IF ~ok
          THEN adminResponse' = "500" /\ UNCHANGED admin_queue
          ELSE /\ admin_queue' = { r \in admin_queue : r.id # id }
               /\ adminResponse' = "200"
    /\ UNCHANGED << pipeVars, gen, knowledge_base, uniqueQuestion, nextId, nextKbId,
                    tasks, history, adminReqs >>

\* ------------------------------------------------------------------------
\* Knowledge-base routes of the administrator, one await at a time
\* ------------------------------------------------------------------------
\* question texts the admin pages send: handleSave trims them; "" is a
\* request without a question
KnowledgeQuestions == {"", "q0", "q2"}

Respond(req, status, failure) ==
    [req EXCEPT !.rpc = "done", !.status = status, !.failure = failure]

\* POST /api/admin/knowledge: session check and field check
KnowledgePostStart(s) ==
    /\ adminReqs[s].rpc = "idle"
    /\ \E isAdmin \in BOOLEAN, q \in KnowledgeQuestions,
          queueId \in {r.id : r \in admin_queue} \cup {0} :
          adminReqs' = [adminReqs EXCEPT ![s] =
              IF ~isAdmin THEN Respond([@ EXCEPT !.op = "post"], "401", "none")
              ELSE IF q = "" THEN Respond([@ EXCEPT !.op = "post"], "400", "none")
              ELSE [@ EXCEPT !.op = "post", !.rpc = "embedding",
                             !.question = q, !.queueId = queueId]]
    /\ UNCHANGED << pipeVars, gen, storeVars, tasks, adminOps, adminResponse, history >>

\* const embedding = await generateEmbedding(question)
KnowledgePostEmbedding(s) ==
    /\ adminReqs[s].op = "post"
    /\ adminReqs[s].rpc = "embedding"
    /\ \E ok \in BOOLEAN :
          adminReqs' = [adminReqs EXCEPT ![s] =
              IF ok
              THEN [@ EXCEPT !.rpc = "insert", !.embedding = generateEmbedding(adminReqs[s].question)]
              ELSE Respond(@, "500", "embedding")]
    /\ UNCHANGED << pipeVars, gen, storeVars, tasks, adminOps, adminResponse, history >>

\* the insert whose error is answered before the queue row is touched
KnowledgePostInsertIgnoringError(s) ==
    /\ adminReqs[s].op = "post"
    /\ adminReqs[s].rpc = "insert"
    /\ \E kbError \in BOOLEAN :
          /\ knowledge_base' = IF kbError THEN knowledge_base
                               ELSE knowledge_base \cup
                                    {[id |-> nextKbId, question |-> trim(adminReqs[s].question),
                                      answer |-> trim(" ans"),
                                      embedding |-> adminReqs[s].embedding]}
          /\ nextKbId' = IF kbError THEN nextKbId ELSE nextKbId + 1
          /\ adminReqs' = [adminReqs EXCEPT ![s] =
                IF @.queueId # 0
                THEN [@ EXCEPT !.rpc = "queueUpdate", !.kbWritten = ~kbError,
                               !.failure = IF kbError THEN "insert" ELSE "none"]
                ELSE IF kbError THEN Respond(@, "500", "insert")
                ELSE Respond([@ EXCEPT !.kbWritten = TRUE], "200", "none")]
    /\ UNCHANGED << pipeVars, gen, admin_queue, uniqueQuestion, nextId, tasks, adminOps,
                    adminResponse, history >>

\* supabaseAdmin.from('knowledge_base').insert({...}).select().single(); if (kbError) 500
KnowledgePostInsert(s) ==
    /\ adminReqs[s].op = "post"
    /\ adminReqs[s].rpc = "insert"
    /\ \E kbError \in BOOLEAN :
          IF kbError
          THEN /\ adminReqs' = [adminReqs EXCEPT ![s] = Respond(@, "500", "insert")]
               /\ UNCHANGED << knowledge_base, nextKbId >>
          ELSE /\ knowledge_base' = knowledge_base \cup
                     {[id |-> nextKbId, question |-> trim(adminReqs[s].question),
                       answer |-> trim(" ans"), embedding |-> adminReqs[s].embedding]}
               /\ nextKbId' = nextKbId + 1
               /\ adminReqs' = [adminReqs EXCEPT ![s] =
                     IF @.queueId # 0
                     THEN [@ EXCEPT !.rpc = "queueUpdate", !.kbWritten = TRUE]
                     ELSE Respond([@ EXCEPT !.kbWritten = TRUE], "200", "none")]
    /\ UNCHANGED << pipeVars, gen, admin_queue, uniqueQuestion, nextId, tasks, adminOps,
                    adminResponse, history >>

\* if (queueId) await supabaseAdmin.from('admin_queue').update(...).eq('id', queueId)
\* whose result is not looked at; then the success response
KnowledgePostQueueUpdate(s) ==
    /\ adminReqs[s].op = "post"
    /\ adminReqs[s].rpc = "queueUpdate"
    /\ \E result \in {"ok", "error", "throw"} :
          /\ admin_queue' = IF result = "ok"
                            THEN ResolveRow(admin_queue, adminReqs[s].queueId)
                            ELSE admin_queue
          /\ adminReqs' = [adminReqs EXCEPT ![s] =
                IF result = "throw" THEN Respond(@, "500", "queueUpdate")
                ELSE Respond([@ EXCEPT !.queueWritten = (result = "ok")], "200",
                            IF result = "error" THEN "queueUpdate" ELSE "none")]
    /\ UNCHANGED << pipeVars, gen, knowledge_base, uniqueQuestion, nextId, nextKbId, tasks,
                    adminOps, adminResponse, history >>

\* PUT /api/admin/knowledge: session check and field check
KnowledgePutStart(s) ==
    /\ adminReqs[s].rpc = "idle"
    /\ \E isAdmin \in BOOLEAN, q \in KnowledgeQuestions, id \in {r.id : r \in knowledge_base} :
          adminReqs' = [adminReqs EXCEPT ![s] =
              IF ~isAdmin THEN Respond([@ EXCEPT !.op = "put"], "401", "none")
              ELSE IF q = "" THEN Respond([@ EXCEPT !.op = "put"], "400", "none")
              ELSE [@ EXCEPT !.op = "put", !.rpc = "embedding", !.question = q, !.id = id]]
    /\ UNCHANGED << pipeVars, gen, storeVars, tasks, adminOps, adminResponse, history >>

\* const embedding = await generateEmbedding(question)
KnowledgePutEmbedding(s) ==
    /\ adminReqs[s].op = "put"
    /\ adminReqs[s].rpc = "embedding"
    /\ \E ok \in BOOLEAN :
          adminReqs' = [adminReqs EXCEPT ![s] =
              IF ok
              THEN [@ EXCEPT !.rpc = "update", !.embedding = generateEmbedding(adminReqs[s].question)]
              ELSE Respond(@, "500", "embedding")]
    /\ UNCHANGED << pipeVars, gen, storeVars, tasks, adminOps, adminResponse, history >>

\* .update({ question, answer, embedding, updated_at }).eq('id', id).select().single()
KnowledgePutUpdate(s) ==
    /\ adminReqs[s].op = "put"
    /\ adminReqs[s].rpc = "update"
    /\ \E error \in BOOLEAN :
          IF error \/ ~\E r \in knowledge_base : r.id = adminReqs[s].id
          THEN /\ adminReqs' = [adminReqs EXCEPT ![s] = Respond(@, "500", "update")]
               /\ UNCHANGED knowledge_base
          ELSE /\ knowledge_base' =
                     { IF r.id = adminReqs[s].id
                       THEN [r EXCEPT !.question = trim(adminReqs[s].question),
                                      !.answer = trim(" ans"),
                                      !.embedding = adminReqs[s].embedding]
                       ELSE r : r \in knowledge_base }
               /\ adminReqs' = [adminReqs EXCEPT ![s] =
                     Respond([@ EXCEPT !.kbWritten = TRUE], "200", "none")]
    /\ UNCHANGED << pipeVars, gen, admin_queue, uniqueQuestion, nextId, nextKbId, tasks,
                    adminOps, adminResponse, history >>

\* DELETE /api/admin/knowledge?id=
KnowledgeDelete(s) ==
    /\ adminReqs[s].rpc = "idle"
    /\ \E isAdmin \in BOOLEAN, id \in {r.id : r \in knowledge_base}, error \in BOOLEAN :
          IF ~isAdmin \/ error
          THEN /\ adminReqs' = [adminReqs EXCEPT ![s] =
                     Respond([@ EXCEPT !.op = "delete", !.id = id],
                            IF ~isAdmin THEN "401" ELSE "500",
                            IF ~isAdmin THEN "none" ELSE "delete")]
               /\ UNCHANGED knowledge_base
          ELSE /\ knowledge_base' = { r \in knowledge_base : r.id # id }
               /\ adminReqs' = [adminReqs EXCEPT ![s] =
                     Respond([@ EXCEPT !.op = "delete", !.id = id, !.kbWritten = TRUE],
                            "200", "none")]
    /\ UNCHANGED << pipeVars, gen, admin_queue, uniqueQuestion, nextId, nextKbId, tasks,
                    adminOps, adminResponse, history >>

\* the rows of a SELECT id, question in every order the store may return them
RECURSIVE SnapshotsOf(_)
SnapshotsOf(rows) ==
    IF rows = {} THEN { << >> }
    ELSE UNION { { << [id |-> r.id, question |-> r.question] >> \o rest :
                   rest \in SnapshotsOf(rows \ {r}) } : r \in rows }

\* POST /api/admin/knowledge/regenerate-embeddings: session check
RegenerateStart(s) ==
    /\ adminReqs[s].rpc = "idle"
    /\ \E isAdmin \in BOOLEAN :
          adminReqs' = [adminReqs EXCEPT ![s] =
              IF ~isAdmin THEN Respond([@ EXCEPT !.op = "regenerate"], "401", "none")
              ELSE [@ EXCEPT !.op = "regenerate", !.rpc = "fetch"]]
    /\ UNCHANGED << pipeVars, gen, storeVars, tasks, adminOps, adminResponse, history >>

\* const { data: entries, error: fetchError } = await ...select('id, question, answer')
RegenerateFetch(s) ==
    /\ adminReqs[s].op = "regenerate"
    /\ adminReqs[s].rpc = "fetch"
    /\ \E fetchError \in BOOLEAN, entries \in SnapshotsOf(knowledge_base) :
          adminReqs' = [adminReqs EXCEPT ![s] =
              IF fetchError THEN Respond(@, "500", "fetch")
              ELSE IF entries = << >> THEN Respond(@, "200", "none")
              ELSE [@ EXCEPT !.rpc = "regenEmbedding", !.entries = entries]]
    /\ UNCHANGED << pipeVars, gen, storeVars, tasks, adminOps, adminResponse, history >>

\* the loop moving to its next entry, or the summary response after the last
NextEntry(req) ==
    IF Len(req.entries) = 1
    THEN Respond([req EXCEPT !.entries = << >>], "200", req.failure)
    ELSE [req EXCEPT !.rpc = "regenEmbedding", !.entries = Tail(@)]

\* const embedding = await generateEmbedding(entry.question), entry of the snapshot
RegenerateEmbedding(s) ==
    /\ adminReqs[s].op = "regenerate"
    /\ adminReqs[s].rpc = "regenEmbedding"
    /\ \E ok \in BOOLEAN :
          adminReqs' = [adminReqs EXCEPT ![s] =
              IF ok
              THEN [@ EXCEPT !.rpc = "regenUpdate", !.id = Head(adminReqs[s].entries).id,
                             !.embedding = generateEmbedding(Head(adminReqs[s].entries).question)]
              ELSE NextEntry([@ EXCEPT !.failure = "entry"])]
    /\ UNCHANGED << pipeVars, gen, storeVars, tasks, adminOps, adminResponse, history >>

\* .update({ embedding, updated_at }).eq('id', entry.id)
RegenerateUpdate(s) ==
    /\ adminReqs[s].op = "regenerate"
    /\ adminReqs[s].rpc = "regenUpdate"
    /\ \E updateError \in BOOLEAN :
          IF updateError
          THEN /\ adminReqs' = [adminReqs EXCEPT ![s] = NextEntry([@ EXCEPT !.failure = "entry"])]
               /\ UNCHANGED knowledge_base
          ELSE /\ knowledge_base' =
                     { IF r.id = adminReqs[s].id
                       THEN [r EXCEPT !.embedding = adminReqs[s].embedding]
                       ELSE r : r \in knowledge_base }
               /\ adminReqs' = [adminReqs EXCEPT ![s] = NextEntry([@ EXCEPT !.kbWritten = TRUE])]
    /\ UNCHANGED << pipeVars, gen, admin_queue, uniqueQuestion, nextId, nextKbId, tasks,
                    adminOps, adminResponse, history >>

\* ------------------------------------------------------------------------
\* Specifications
\* ------------------------------------------------------------------------
\* admin_queue as an earlier request for "q1" on the web path leaves it
QueueAfterQ1 ==
    { [id |-> 3, user_question |-> "q1", status |-> "pending",
       embedding |-> generateEmbedding("q1"), resolved_at |-> NULL] }

InitCommon ==
    /\ question = ""
    /\ queryEmbedding = NullVector
    /\ dbChunks = << >>
    /\ judgment = "none"
    /\ judge = [outcome |-> "none", rawResponse |-> NULL]
    /\ response = "none"
    /\ streamState = "none"
    /\ calls = [embed |-> 0, search |-> 0, judge |-> 0, enqueue |-> 0,
                internal |-> 0, web |-> 0, failed |-> 0]
    /\ knowledge_base = KnowledgeInit
    /\ uniqueQuestion = FALSE
    /\ nextId = 4
    /\ nextKbId = 3
    /\ tasks = [t \in Tasks |-> TaskIdle]
    /\ adminOps = 0
    /\ adminResponse = "none"
    /\ adminReqs = [s \in AdminSlots |-> ReqIdle]
    /\ history = [concurrent |-> FALSE, checkError |-> FALSE, cancelledWhileBusy |-> FALSE]

\* one request through the chat route
Init ==
    /\ InitCommon
    /\ pc = "idle"
    /\ gen = GenIdle
    /\ admin_queue \in {{}, QueueAfterQ1}

Next ==
    \/ PostStart
    \/ EmbeddingReturn
    \/ EmbeddingThrow
    \/ RetrieveReturn
    \/ RetrieveError
    \/ JudgeStart
    \/ JudgeReturn
    \/ JudgeThrow
    \/ StreamStart
    \/ GenCallReturn
    \/ GenCallThrow
    \/ GenChunk(RouteTexts, RouteGroundings)
    \/ GenStreamEnd
    \/ GenStreamThrow
    \/ GenFooterLine
    \/ StreamClose
    \/ \E t \in Tasks : EnqueueCheck(t)
    \/ \E t \in Tasks : EnqueueInsert(t)

Spec == Init /\ [][Next]_vars

\* a generator alone, consumed to its end
InitGen ==
    /\ InitCommon
    /\ pc = "generator"
    /\ gen \in {GenStart("internal"), GenStart("web")}
    /\ admin_queue = {}

NextGen ==
    \/ GenCallReturn
    \/ GenCallThrow
    \/ GenChunk(Texts, Groundings)
    \/ GenStreamEnd
    \/ GenStreamThrow
    \/ GenFooterLine

SpecGen == InitGen /\ [][NextGen]_vars

\* web-path requests firing addToAdminQueue, and the administrator
QueueQuestions == {"q1", "q2", "q3"}

QueueFire ==
    /\ \E t \in Tasks, q \in QueueQuestions :
          /\ tasks[t].tpc = "idle"
          /\ \A u \in 1..(t - 1) : tasks[u].tpc # "idle"
          /\ addToAdminQueue(t, q, generateEmbedding(q))
    /\ UNCHANGED << pipeVars, gen, storeVars, adminVars >>

InitQueue ==
    /\ InitCommon
    /\ pc = "queue"
    /\ gen = GenIdle
    /\ admin_queue = {}

NextQueue ==
    \/ QueueFire
    \/ \E t \in Tasks : EnqueueCheck(t)
    \/ \E t \in Tasks : EnqueueInsert(t)
    \/ KnowledgePost
    \/ QueueDelete

SpecQueue == InitQueue /\ [][NextQueue]_vars

\* knowledge_base rows an administrator may have saved, and one row without
\* an embedding
KnowledgePool ==
    { [id |-> n, question |-> KnowledgeTexts[n], answer |-> "a" \o ToString(n),
       embedding |-> generateEmbedding(KnowledgeTexts[n])] : n \in 1..Len(KnowledgeTexts) }
    \cup { [id |-> 0, question |-> "q1", answer |-> "a0", embedding |-> NullVector] }

\* the search alone, over every knowledge base drawn from the pool
InitRetrieve ==
    /\ question \in {"q1", "q2"}
    /\ queryEmbedding = generateEmbedding(question)
    /\ dbChunks = << >>
    /\ judgment = "none"
    /\ judge = [outcome |-> "none", rawResponse |-> NULL]
    /\ response = "none"
    /\ streamState = "none"
    /\ calls = [embed |-> 1, search |-> 1, judge |-> 0, enqueue |-> 0,
                internal |-> 0, web |-> 0, failed |-> 0]
    /\ knowledge_base \in SUBSET KnowledgePool
    /\ uniqueQuestion = FALSE
    /\ nextId = 4
    /\ nextKbId = 3
    /\ tasks = [t \in Tasks |-> TaskIdle]
    /\ adminOps = 0
    /\ adminResponse = "none"
    /\ adminReqs = [s \in AdminSlots |-> ReqIdle]
    /\ history = [concurrent |-> FALSE, checkError |-> FALSE, cancelledWhileBusy |-> FALSE]
    /\ pc = "retrieving"
    /\ gen = GenIdle
    /\ admin_queue = {}

NextRetrieve ==
    \/ RetrieveReturn
    \/ RetrieveError

SpecRetrieve == InitRetrieve /\ [][NextRetrieve]_vars

\* a request for "q2" that has been judged, with a caller that may go away
\* while the answer streams
InitCancel ==
    /\ question = "q2"
    /\ queryEmbedding = generateEmbedding("q2")
    /\ dbChunks = << "a1", "a3" >>
    /\ \E rawResponse \in {"YES", "NO"} :
          /\ judgment = JudgeDecision(rawResponse)
          /\ judge = [outcome |-> "replied", rawResponse |-> rawResponse]
    /\ response = "none"
    /\ streamState = "none"
    /\ calls = [embed |-> 1, search |-> 1, judge |-> 1, enqueue |-> 0,
                internal |-> 0, web |-> 0, failed |-> 0]
    /\ knowledge_base = KnowledgeInit
    /\ uniqueQuestion = FALSE
    /\ nextId = 4
    /\ nextKbId = 3
    /\ tasks = [t \in Tasks |-> TaskIdle]
    /\ adminOps = 0
    /\ adminResponse = "none"
    /\ adminReqs = [s \in AdminSlots |-> ReqIdle]
    /\ history = [concurrent |-> FALSE, checkError |-> FALSE, cancelledWhileBusy |-> FALSE]
    /\ pc = "judged"
    /\ gen = GenIdle
    /\ admin_queue \in {{}, QueueAfterQ1}

GenStep ==
    \/ GenCallReturn
    \/ GenCallThrow
    \/ GenChunk(RouteTexts, RouteGroundings)
    \/ GenStreamEnd
    \/ GenStreamThrow
    \/ GenFooterLine

NextCancel ==
    \/ StreamStart
    \/ GenStep
    \/ StreamClose
    \/ Disconnect
    \/ \E t \in Tasks : EnqueueCheck(t)
    \/ \E t \in Tasks : EnqueueInsert(t)

\* every pending await settles: the generator and the route's loop go on, and
\* each store call of a detached task answers
SpecCancel ==
    /\ InitCancel
    /\ [][NextCancel]_vars
    /\ WF_vars(GenStep)
    /\ WF_vars(StreamClose)
    /\ \A t \in Tasks : WF_vars(EnqueueCheck(t)) /\ WF_vars(EnqueueInsert(t))

\* the awaits of the route between the arrival of the request and the stream
RouteStep ==
    \/ EmbeddingReturn
    \/ EmbeddingThrow
    \/ RetrieveReturn
    \/ RetrieveError
    \/ JudgeStart
    \/ JudgeReturn
    \/ JudgeThrow
    \/ StreamStart

\* one request through the chat route whose external calls all return or fail
SpecLive ==
    /\ Init
    /\ [][Next]_vars
    /\ WF_vars(RouteStep)
    /\ WF_vars(GenStep)
    /\ WF_vars(StreamClose)

\* a row written before the embedding column was added to admin_queue
LegacyRow ==
    [id |-> 3, user_question |-> "q1", status |-> "pending",
     embedding |-> NullVector, resolved_at |-> NULL]

\* the writers and the administrator over a queue that starts with such a row
InitQueueLegacy ==
    /\ InitCommon
    /\ pc = "queue"
    /\ gen = GenIdle
    /\ admin_queue = {LegacyRow}

SpecQueueLegacy == InitQueueLegacy /\ [][NextQueue]_vars

\* the same writers and administrator over an admin_queue created with or
\* without the UNIQUE constraint on the question text
InitQueueStore ==
    /\ question = ""
    /\ queryEmbedding = NullVector
    /\ dbChunks = << >>
    /\ judgment = "none"
    /\ judge = [outcome |-> "none", rawResponse |-> NULL]
    /\ response = "none"
    /\ streamState = "none"
    /\ calls = [embed |-> 0, search |-> 0, judge |-> 0, enqueue |-> 0,
                internal |-> 0, web |-> 0, failed |-> 0]
    /\ knowledge_base = KnowledgeInit
    /\ uniqueQuestion \in BOOLEAN
    /\ nextId = 4
    /\ nextKbId = 3
    /\ tasks = [t \in Tasks |-> TaskIdle]
    /\ adminOps = 0
    /\ adminResponse = "none"
    /\ adminReqs = [s \in AdminSlots |-> ReqIdle]
    /\ history = [concurrent |-> FALSE, checkError |-> FALSE, cancelledWhileBusy |-> FALSE]
    /\ pc = "queue"
    /\ gen = GenIdle
    /\ admin_queue = {}

SpecQueueStore == InitQueueStore /\ [][NextQueue]_vars

\* administrators working on the knowledge base, their requests overlapping
InitKnowledge ==
    /\ InitCommon
    /\ pc = "idle"
    /\ gen = GenIdle
    /\ admin_queue = QueueAfterQ1

NextKnowledge ==
    \E s \in AdminSlots :
        \/ KnowledgePostStart(s)
        \/ KnowledgePostEmbedding(s)
        \/ KnowledgePostInsert(s)
        \/ KnowledgePostQueueUpdate(s)
        \/ KnowledgePutStart(s)
        \/ KnowledgePutEmbedding(s)
        \/ KnowledgePutUpdate(s)
        \/ KnowledgeDelete(s)
        \/ RegenerateStart(s)
        \/ RegenerateFetch(s)
        \/ RegenerateEmbedding(s)
        \/ RegenerateUpdate(s)

SpecKnowledge == InitKnowledge /\ [][NextKnowledge]_vars

\* ------------------------------------------------------------------------
\* Properties
\* ------------------------------------------------------------------------
\* s contains t, stated on positions
ContainsToken(s, t) ==
    \E n \in 1..(Len(s) - Len(t) + 1) : SubSeq(s, n, n + Len(t) - 1) = t

PassesYesNotNo(reply) ==
    /\ ContainsToken(toUpperCase(trim(reply)), "YES")
    /\ ~ContainsToken(toUpperCase(trim(reply)), "NO")

\* C1: the grounded generator runs only in a request whose single judge call
\* returned a reply that passes the YES-and-not-NO rule; a judge call that
\* fails yields the judgment NO, is not raised to the route (no 500), and the
\* request goes on to the web generator.
C1_JudgeFailClosed ==
    /\ calls.internal > 0 =>
          /\ judge.outcome = "replied"
          /\ calls.judge = 1
          /\ PassesYesNotNo(judge.rawResponse)
    /\ judge.outcome = "failed" =>
          /\ judgment = "NO"
          /\ response \in {"none", "stream"}
          /\ pc \in {"judged", "streaming", "done"}
          /\ calls.internal = 0
          /\ pc # "judged" => gen.kind = "web" /\ calls.web = 1

C1_Witness ==
    /\ judge.outcome = "failed"
    /\ gen.kind = "web"
    /\ streamState = "closed"

\* C2: with a non-empty chunk list the judgment is YES exactly when the reply,
\* trimmed and uppercased, contains "YES" and does not contain "NO"; the
\* replies "NO", "YES, but also NO" and "" give NO.
C2_JudgeRule ==
    judge.outcome = "replied" =>
       /\ Len(dbChunks) > 0
       /\ judgment \in {"YES", "NO"}
       /\ (judgment = "YES") <=> PassesYesNotNo(judge.rawResponse)
       /\ judge.rawResponse \in {"NO", "YES, but also NO", ""} => judgment = "NO"
       /\ judge.rawResponse = "YES" => judgment = "YES"

C2_Witness ==
    /\ judge.outcome = "replied"
    /\ judge.rawResponse = "YES, but also NO"
    /\ judgment = "NO"

\* C3: the judge makes no generation call when the chunk list is empty and
\* exactly one, never repeated, when it is not.
C3_JudgeCalls ==
    /\ calls.judge <= 1
    /\ judgment # "none" => calls.judge = (IF Len(dbChunks) = 0 THEN 0 ELSE 1)
    /\ (pc \in {"judged", "streaming"} /\ Len(dbChunks) = 0) =>
          judge.outcome = "skipped" /\ judgment = "NO"

C3_Witness ==
    /\ pc = "done"
    /\ response = "stream"
    /\ Len(dbChunks) = 0
    /\ calls.judge = 0
    /\ judgment = "NO"

\* C4: a retrieval that returns without error, whatever the number of matches,
\* is followed by Judging; once the request is past Judging exactly one
\* generator has been run: the grounded one for YES, the web one for NO.
C4_AfterJudging ==
    /\ pc \in {"idle", "embedding", "retrieving", "judging", "judgeWait", "judged"} =>
          calls.internal + calls.web = 0
    /\ (pc \in {"streaming", "done"} /\ response = "stream") =>
          /\ calls.internal + calls.web = 1
          /\ judgment \in {"YES", "NO"}
          /\ (judgment = "YES") <=> (calls.internal = 1 /\ gen.kind = "internal")
          /\ (judgment = "NO") <=> (calls.web = 1 /\ gen.kind = "web")

C4_RetrievalThenJudging ==
    (pc = "retrieving" /\ pc' # "retrieving" /\ response' # "500") => pc' = "judging"

C4_OneGenerator == [] C4_AfterJudging /\ [][C4_RetrievalThenJudging]_vars

C4_Witness ==
    /\ pc = "done"
    /\ Len(dbChunks) = 2
    /\ judgment = "YES"
    /\ calls.internal = 1
    /\ calls.web = 0

RECURSIVE ConcatAll(_)
ConcatAll(seq) == IF Len(seq) = 0 THEN "" ELSE Head(seq) \o ConcatAll(Tail(seq))

IsText(t) == t # ""
YieldedTexts(g) == SelectSeq(g.raw, IsText)
ErrorLine(kind) == IF kind = "internal" THEN InternalError ELSE WebError

\* C5: on the grounded path the knowledge-base trailer appears only as the last
\* element of the output and only once the underlying stream has completed;
\* when it is there, the concatenation of everything before it equals the
\* concatenation of the raw stream's texts in their order.
C5_GroundedFooterLast ==
    gen.kind = "internal" =>
       /\ \A n \in 1..Len(gen.out) :
             gen.out[n] = InternalFooter =>
                n = Len(gen.out) /\ gen.ended /\ gen.gpc = "done"
       /\ (gen.gpc = "done" /\ ~gen.failed) =>
             /\ Len(gen.out) >= 1
             /\ gen.out[Len(gen.out)] = InternalFooter
             /\ ConcatAll(SubSeq(gen.out, 1, Len(gen.out) - 1)) = ConcatAll(gen.raw)
       /\ (gen.gpc = "streaming") => ConcatAll(gen.out) = ConcatAll(gen.raw)

C5_Witness ==
    /\ gen.kind = "internal"
    /\ gen.gpc = "done"
    /\ gen.raw = << "a", "" >>
    /\ gen.out = << "a", InternalFooter >>

\* C6: in both generators a failure of the generation call, at its start or
\* while its stream is read, is turned into one error line that ends the
\* output after the texts already yielded; the generator returns normally and
\* lets no exception out.
C6_FailureBecomesContent ==
    /\ gen.threw = FALSE
    /\ gen.failed =>
          /\ gen.gpc = "done"
          /\ gen.out = YieldedTexts(gen) \o << ErrorLine(gen.kind) >>
          /\ Cardinality({ n \in 1..Len(gen.out) :
                             gen.out[n] \in {InternalError, WebError} }) = 1

C6_Witness ==
    /\ gen.failed
    /\ gen.kind = "web"
    /\ Len(gen.raw) >= 1
    /\ gen.out[Len(gen.out)] = WebError

\* citations carrying both a URL and a title, in the order the stream gave them
IsCitation(c) == c.web.uri # "" /\ c.web.title # ""
Citations(g) == SelectSeq(g.cited, IsCitation)
CitedUrls(g) == { Citations(g)[n].web.uri : n \in 1..Len(Citations(g)) }
FirstAt(g, u) ==
    CHOOSE n \in 1..Len(Citations(g)) :
       /\ Citations(g)[n].web.uri = u
       /\ \A m \in 1..(n - 1) : Citations(g)[m].web.uri # u
Rank(g, u) == 1 + Cardinality({ v \in CitedUrls(g) : FirstAt(g, v) < FirstAt(g, u) })
HeaderAt(g) == Len(YieldedTexts(g)) + 1

\* C7: on the web path the footer has one line per distinct cited URL, in the
\* order the URLs were first cited, each with the title of the first citation
\* of that URL.
C7_CitationsDeduplicated ==
    (gen.kind = "web" /\ gen.gpc = "done" /\ ~gen.failed /\ CitedUrls(gen) # {}) =>
       /\ Len(gen.out) = HeaderAt(gen) + Cardinality(CitedUrls(gen))
       /\ \A u \in CitedUrls(gen) :
             gen.out[HeaderAt(gen) + Rank(gen, u)] =
                ToString(Rank(gen, u)) \o ". ["
                   \o Citations(gen)[FirstAt(gen, u)].web.title
                   \o "](" \o u \o ")\n"

C7_Witness ==
    /\ gen.kind = "web"
    /\ gen.gpc = "done"
    /\ ~gen.failed
    /\ \E m, n \in 1..Len(Citations(gen)) :
          /\ m < n
          /\ Citations(gen)[m].web.uri = Citations(gen)[n].web.uri
          /\ Citations(gen)[m].web.title # Citations(gen)[n].web.title
    /\ Cardinality(CitedUrls(gen)) = 2

\* C8: on the web path nothing of the footer is yielded before the underlying
\* stream has completed; then come the header and a numbered list when a
\* citation was collected, the generic trailer when none was, and nothing
\* after them.
C8_WebFooterLast ==
    gen.kind = "web" =>
       /\ (~gen.ended /\ ~gen.failed) => gen.out = YieldedTexts(gen)
       /\ (gen.ended /\ CitedUrls(gen) = {}) =>
             /\ gen.gpc = "done"
             /\ gen.out = YieldedTexts(gen) \o << WebGenericFooter >>
       /\ (gen.ended /\ CitedUrls(gen) # {}) =>
             /\ SubSeq(gen.out, 1, HeaderAt(gen)) = YieldedTexts(gen) \o << WebSourcesHeader >>
             /\ Len(gen.out) <= HeaderAt(gen) + Cardinality(CitedUrls(gen))
             /\ \A k \in 1..(Len(gen.out) - HeaderAt(gen)) :
                   SubSeq(gen.out[HeaderAt(gen) + k], 1, Len(ToString(k)) + 3)
                      = ToString(k) \o ". ["
             /\ gen.gpc = "done" => Len(gen.out) = HeaderAt(gen) + Cardinality(CitedUrls(gen))

C8_Witness ==
    /\ gen.kind = "web"
    /\ gen.gpc = "done"
    /\ gen.ended
    /\ Len(gen.raw) = MaxChunks
    /\ CitedUrls(gen) = {}
    /\ gen.out[Len(gen.out)] = WebGenericFooter

\* cosine similarity >= 0.85, as 17/20: cos^2 >= 289/400 with cos >= 0
Similar85(a, b) ==
    /\ Dot(a, b) >= 0
    /\ 400 * Dot(a, b) * Dot(a, b) >= 289 * Dot(a, a) * Dot(b, b)

Pending(queue) == { r \in queue : r.status = "pending" }

PendingDuplicateOf(queue, e) ==
    \E r \in Pending(queue) : r.embedding # NullVector /\ Similar85(r.embedding, e)

\* the duplicate check of task t returns data in this step
CheckAnswers(t) ==
    /\ tasks[t].tpc = "check"
    /\ tasks'[t].tpc # "check"
    /\ ~tasks'[t].checkError
    /\ tasks'[t].outcome # "threw"

\* the insert of task t succeeds in this step
InsertSucceeds(t) ==
    /\ tasks[t].tpc = "insert"
    /\ tasks'[t].outcome = "inserted"

PendingWith(text) == \E r \in Pending(admin_queue) : r.user_question = text

\* C9: when the duplicate check answers without error, the task goes on to the
\* insert exactly when no Pending row has cosine similarity >= 0.85 to the
\* incoming embedding, and stops without inserting otherwise; an insert that
\* succeeds adds exactly one Pending row holding the trimmed question and the
\* embedding; for a task that ran with no other task in flight the queue still
\* holds no such Pending row when it inserts.  With "q1" pending, "q2"
\* (similarity 0.90) and "q3" (exactly 0.85) are not inserted; with only "q2"
\* pending, "q3" (0.80) is.
C9_Step ==
    \A t \in Tasks :
       /\ CheckAnswers(t) =>
             /\ (tasks'[t].tpc = "insert") <=>
                   ~PendingDuplicateOf(admin_queue, tasks[t].embedding)
             /\ (tasks'[t].tpc # "insert") =>
                   tasks'[t].tpc = "done" /\ tasks'[t].outcome = "duplicate"
             /\ admin_queue' = admin_queue
             /\ (PendingWith("q1") /\ tasks[t].question \in {"q2", "q3"}) =>
                   tasks'[t].outcome = "duplicate"
             /\ (Pending(admin_queue) # {} /\ ~PendingWith("q1") /\ ~PendingWith("q3")
                 /\ tasks[t].question = "q3") => tasks'[t].tpc = "insert"
       /\ InsertSucceeds(t) =>
             /\ \E r \in admin_queue' :
                   /\ r \notin admin_queue
                   /\ admin_queue' = admin_queue \cup {r}
                   /\ r.status = "pending"
                   /\ r.user_question = trim(tasks[t].question)
                   /\ r.embedding = tasks[t].embedding
                   /\ r.resolved_at = NULL
             /\ (~tasks[t].overlapped /\ ~tasks[t].checkError) =>
                   ~PendingDuplicateOf(admin_queue, tasks[t].embedding)
       /\ (tasks[t].tpc = "insert" /\ tasks'[t].tpc = "done"
           /\ tasks'[t].outcome # "inserted") =>
             admin_queue' = admin_queue

C9_EnqueueIfNovel == [][C9_Step]_vars

C9_Witness ==
    \E t \in Tasks :
       /\ tasks[t].tpc = "done"
       /\ tasks[t].question = "q3"
       /\ tasks[t].outcome = "duplicate"
       /\ ~tasks[t].overlapped
       /\ ~tasks[t].checkError
       /\ PendingWith("q1")
       /\ Cardinality(admin_queue) = 1

\* no two Pending rows are within the duplicate threshold of each other
NoSimilarPending ==
    \A r, o \in Pending(admin_queue) :
       (r.id # o.id /\ r.embedding # NullVector /\ o.embedding # NullVector) =>
          ~Similar85(r.embedding, o.embedding)

\* C10 as stated: in every reachable state, under any interleaving, no two
\* Pending rows have cosine similarity >= 0.85.
C10_AlwaysNoSimilarPending == NoSimilarPending

\* C10 amended: as long as no two addToAdminQueue tasks have been in flight
\* together and no duplicate check has returned an error, no two Pending rows
\* have cosine similarity >= 0.85, whatever the administrator does.
C10_NoSimilarPendingWhenSequential ==
    (~history.concurrent /\ ~history.checkError) => NoSimilarPending

C10_Witness ==
    /\ ~history.concurrent
    /\ ~history.checkError
    /\ Cardinality(Pending(admin_queue)) = 2
    /\ \A t \in 1..2 : tasks[t].outcome = "inserted"

\* rows of the queue holding the text
RowsWith(queue, text) == { r \in queue : r.user_question = text }

\* C11: two rows with the same trimmed question text are stored only in a
\* queue without the UNIQUE constraint on the text; with the constraint at most
\* one row holds a given text, whatever its status, and the insert that loses
\* ends its task quietly with the duplicate-key result.
C11_ExactDuplicateOnlyWithoutConstraint ==
    /\ (\E r, o \in admin_queue : r.id # o.id /\ r.user_question = o.user_question)
          => ~uniqueQuestion
    /\ uniqueQuestion =>
          \A q \in QueueQuestions : Cardinality(RowsWith(admin_queue, trim(q))) <= 1
    /\ \A t \in Tasks :
          tasks[t].outcome = "duplicateKey" =>
             /\ uniqueQuestion
             /\ tasks[t].tpc = "done"
             /\ response = "none"
             /\ streamState = "none"

C11_Witness ==
    /\ uniqueQuestion
    /\ tasks[1].question = tasks[2].question
    /\ tasks[1].overlapped /\ tasks[2].overlapped
    /\ ~history.checkError
    /\ {tasks[1].outcome, tasks[2].outcome} = {"inserted", "duplicateKey"}
    /\ Cardinality(RowsWith(admin_queue, tasks[1].question)) = 1

\* the numbered lines a web answer owes to its citations
FooterLines(g) ==
    [k \in 1..Cardinality(CitedUrls(g)) |->
        LET u == CHOOSE v \in CitedUrls(g) : Rank(g, v) = k
        IN  ToString(k) \o ". [" \o Citations(g)[FirstAt(g, u)].web.title
               \o "](" \o u \o ")\n"]

\* the complete answer as the generation stream alone determines it
AnswerOf(g) ==
    IF g.failed THEN YieldedTexts(g) \o << ErrorLine(g.kind) >>
    ELSE IF g.kind = "internal" THEN YieldedTexts(g) \o << InternalFooter >>
    ELSE IF CitedUrls(g) = {} THEN YieldedTexts(g) \o << WebGenericFooter >>
    ELSE YieldedTexts(g) \o << WebSourcesHeader >> \o FooterLines(g)

EnqueueOutcomes ==
    {"none", "duplicate", "inserted", "duplicateKey", "insertError", "threw"}

C12_StreamWhateverTheEnqueue ==
    \A t \in Tasks :
       tasks[t].tpc # "idle" =>
          /\ tasks[t].outcome \in EnqueueOutcomes
          /\ response = "stream"
          /\ streamState \in {"open", "closed"}
          /\ pc = "done" => streamState = "closed" /\ gen.out = AnswerOf(gen)

C12_EnqueueStepLeavesStream ==
    (tasks' # tasks /\ pc # "judged") =>
       UNCHANGED << pc, question, queryEmbedding, dbChunks, judgment, judge, response,
                    streamState, calls, gen >>

\* C12: whatever the detached enqueue does (duplicate found, row inserted, error
\* from the duplicate check, error from the insert, exception), the response
\* stays the stream, the stream is never put into the error state and closes
\* normally, and its content is the answer the generation stream alone
\* determines; no step of the enqueue changes anything of the request or of
\* its stream.
C12_EnqueueNeverSurfaces ==
    [] C12_StreamWhateverTheEnqueue /\ [][C12_EnqueueStepLeavesStream]_vars

C12_Witness ==
    /\ pc = "done"
    /\ streamState = "closed"
    /\ tasks[1].checkError
    /\ tasks[1].outcome = "threw"
    /\ gen.out = << "a", WebGenericFooter >>

\* C13: on the web path exactly one addToAdminQueue has been started from the
\* moment the web generator exists, hence before it yields anything; it was
\* given the question and the very vector computed for retrieval, and the
\* embedding provider is called once in the whole request.
C13_OneEnqueueWithTheEmbedding ==
    /\ calls.embed <= 1
    /\ calls.enqueue <= 1
    /\ gen.kind = "web" =>
          /\ calls.enqueue = 1
          /\ calls.embed = 1
          /\ tasks[1].tpc # "idle"
          /\ tasks[1].question = question
          /\ tasks[1].embedding = queryEmbedding
          /\ queryEmbedding = generateEmbedding(question)
          /\ \A t \in Tasks \ {1} : tasks[t] = TaskIdle
    /\ calls.enqueue = 1 => gen.kind = "web"

C13_Witness ==
    /\ gen.kind = "web"
    /\ gen.gpc = "calling"
    /\ gen.out = << >>
    /\ tasks[1].tpc = "check"
    /\ tasks[1].embedding = generateEmbedding("q2")
    /\ Len(dbChunks) > 0
    /\ calls.embed = 1

QueueUntouched ==
    /\ calls.enqueue = 0
    /\ \A t \in Tasks : tasks[t] = TaskIdle
    /\ admin_queue \in {{}, QueueAfterQ1}
    /\ nextId = 4

\* C14 as stated: a request judged Relevant ends its stream with the
\* knowledge-base trailer and leaves the queue alone.
C14_RelevantEndsWithTrailer ==
    judgment = "YES" =>
       /\ QueueUntouched
       /\ pc = "done" =>
             /\ Len(gen.out) >= 1
             /\ gen.out[Len(gen.out)] = InternalFooter

\* C14 amended: a request judged Relevant whose grounded generation does not
\* fail ends its stream with the knowledge-base trailer; with or without a
\* failure it starts no addToAdminQueue and the queue stays as it was.
C14_RelevantWithoutFailureEndsWithTrailer ==
    judgment = "YES" =>
       /\ QueueUntouched
       /\ (pc = "done" /\ ~gen.failed) =>
             /\ streamState = "closed"
             /\ Len(gen.out) >= 1
             /\ gen.out[Len(gen.out)] = InternalFooter
       /\ (pc = "done" /\ gen.failed) => gen.out[Len(gen.out)] = InternalError

C14_Witness ==
    /\ judgment = "YES"
    /\ pc = "done"
    /\ ~gen.failed
    /\ admin_queue = QueueAfterQ1
    /\ gen.out = << "a", InternalFooter >>

\* C15: the close of the stream never waits for the enqueue and the enqueue
\* never waits for the stream: with the generator finished the route can close
\* whatever the task is doing, a task in flight can take its next step while
\* the answer still streams, and a finished web answer is the one the
\* generation stream determines wherever the task stands.
C15_CloseNotGatedOnEnqueue ==
    /\ (pc = "streaming" /\ gen.gpc = "done") => ENABLED StreamClose
    /\ (pc = "streaming" /\ gen.gpc # "done") => ENABLED GenStep
    /\ \A t \in Tasks :
          /\ tasks[t].tpc = "check" => ENABLED EnqueueCheck(t)
          /\ tasks[t].tpc = "insert" => ENABLED EnqueueInsert(t)
    /\ (gen.kind = "web" /\ pc = "done") =>
          /\ tasks[1].tpc \in {"check", "insert", "done"}
          /\ streamState = "closed"
          /\ gen.out = AnswerOf(gen)

C15_Witness ==
    /\ gen.kind = "web"
    /\ pc = "done"
    /\ streamState = "closed"
    /\ tasks[1].tpc = "check"
    /\ gen.out = << "a", WebGenericFooter >>

C16_DisconnectLeavesTasks ==
    (streamState # "cancelled" /\ streamState' = "cancelled") =>
       /\ tasks' = tasks
       /\ admin_queue' = admin_queue

C16_TaskCompletes(t) ==
    (streamState = "cancelled" /\ tasks[t].tpc \in {"check", "insert"})
       ~> (tasks[t].tpc = "done" /\ tasks[t].outcome \in EnqueueOutcomes \ {"none"})

C16_TaskStates ==
    \A t \in Tasks : tasks[t].tpc \in {"idle", "check", "insert", "done"}

\* C16: a disconnect during the web answer changes nothing of the enqueue in
\* flight, and from then on the task still reaches its end: the duplicate
\* check answers and, when the question is novel, the insert is made.
C16_EnqueueSurvivesDisconnect ==
    /\ [] C16_TaskStates
    /\ [][C16_DisconnectLeavesTasks]_vars
    /\ \A t \in Tasks : C16_TaskCompletes(t)

C16_Witness ==
    /\ streamState = "cancelled"
    /\ history.cancelledWhileBusy
    /\ tasks[1].outcome = "inserted"
    /\ \E r \in admin_queue : r.user_question = "q2"

TextsPulledAfterCancel(g) ==
    Len(SelectSeq(SubSeq(g.raw, g.rawAtCancel + 1, Len(g.raw)), IsText))

C17_AfterCancel ==
    gen.outAtCancel >= 0 =>
       /\ streamState = "cancelled"
       /\ Len(gen.out) <= gen.outAtCancel + 1
       /\ TextsPulledAfterCancel(gen) <= 1
       /\ Len(gen.out) = gen.outAtCancel + 1 => gen.gpc = "done" /\ gen.returned

C17_ReturnedPullsNothing ==
    gen.returned => gen' = gen

\* C17: after a disconnect the route takes at most one further element from
\* the generator: the first one yielded is refused by the cancelled stream, the
\* generator is returned, and from then on no chunk is pulled from the
\* generation stream; every disconnected request comes to its end.
C17_StopsConsumingAfterDisconnect ==
    /\ [] C17_AfterCancel
    /\ [][C17_ReturnedPullsNothing]_vars
    /\ (streamState = "cancelled" ~> pc = "done")

C17_Witness ==
    /\ streamState = "cancelled"
    /\ gen.returned
    /\ gen.kind = "web"
    /\ gen.rawAtCancel = 0
    /\ gen.raw = << "", "a" >>
    /\ gen.out = << "a" >>
    /\ pc = "done"

NoStageRan ==
    /\ calls.judge = 0
    /\ calls.internal = 0
    /\ calls.web = 0
    /\ calls.enqueue = 0
    /\ judgment = "none"
    /\ streamState = "none"
    /\ gen = GenIdle
    /\ \A t \in Tasks : tasks[t] = TaskIdle
    /\ admin_queue \in {{}, QueueAfterQ1}
    /\ nextId = 4

\* C18: a request without a session is answered 401 with nothing done for it:
\* no embedding call, no search, no judge call, no generator, no queue task and
\* no change of the queue.
C18_NoSessionNoStage ==
    response = "401" =>
       /\ pc = "done"
       /\ calls.embed = 0
       /\ calls.search = 0
       /\ queryEmbedding = NullVector
       /\ question = ""
       /\ NoStageRan

C18_Witness ==
    /\ response = "401"
    /\ pc = "done"
    /\ admin_queue = QueueAfterQ1

\* C19: once the embedding call or the knowledge search has failed, the request
\* is over with the 500 response: no stream was opened, the judge and the
\* generators were not called and no addToAdminQueue was
\* started.
C19_RetrievalFailureFailsHard ==
    /\ calls.failed > 0 =>
          /\ calls.failed = 1
          /\ pc = "done"
          /\ response = "500"
          /\ dbChunks = << >>
          /\ NoStageRan

C19_Witness ==
    /\ response = "500"
    /\ calls.embed = 1
    /\ calls.search = 1
    /\ calls.failed = 1
    /\ queryEmbedding = generateEmbedding("q1")

\* cosine similarity to q: at least one half, and strictly greater for a than b
HalfSimilar(a, q) ==
    /\ Dot(a, q) >= 0
    /\ 4 * Dot(a, q) * Dot(a, q) >= Dot(a, a) * Dot(q, q)

MoreSimilar(a, b, q) ==
    IF Dot(a, q) >= 0 /\ Dot(b, q) >= 0
    THEN Dot(a, q) * Dot(a, q) * Dot(b, b) > Dot(b, q) * Dot(b, q) * Dot(a, a)
    ELSE IF Dot(a, q) < 0 /\ Dot(b, q) < 0
    THEN Dot(a, q) * Dot(a, q) * Dot(b, b) < Dot(b, q) * Dot(b, q) * Dot(a, a)
    ELSE Dot(a, q) >= 0

Eligible(kb, q) == { r \in kb : r.embedding # NullVector /\ HalfSimilar(r.embedding, q) }

\* the knowledge row a chunk was taken from (answers in the pool are distinct)
RowOf(chunk) == CHOOSE r \in knowledge_base : r.answer = chunk

\* C20: the search of the live pipeline returns at most 5 rows, each with
\* similarity >= 0.50 to the query, in descending order of similarity; no row
\* left out has similarity >= 0.50 and more than a returned one, and rows are
\* left out only when 5 are returned; dbChunks are the answers of the returned
\* rows in that order.
C20_RetrievalTopFive ==
    pc = "judging" =>
       /\ Len(dbChunks) <= 5
       /\ \A n \in 1..Len(dbChunks) :
             /\ \E r \in knowledge_base : r.answer = dbChunks[n]
             /\ RowOf(dbChunks[n]) \in Eligible(knowledge_base, queryEmbedding)
       /\ \A m, n \in 1..Len(dbChunks) :
             m < n => /\ dbChunks[m] # dbChunks[n]
                      /\ ~MoreSimilar(RowOf(dbChunks[n]).embedding,
                                      RowOf(dbChunks[m]).embedding, queryEmbedding)
       /\ \A r \in Eligible(knowledge_base, queryEmbedding) :
             (\A n \in 1..Len(dbChunks) : dbChunks[n] # r.answer) =>
                /\ Len(dbChunks) = 5
                /\ \A n \in 1..Len(dbChunks) :
                      ~MoreSimilar(r.embedding, RowOf(dbChunks[n]).embedding,
                                   queryEmbedding)

C20_Witness ==
    /\ pc = "judging"
    /\ question = "q1"
    /\ knowledge_base = KnowledgePool
    /\ Len(dbChunks) = 5
    /\ dbChunks[1] = "a1"
    /\ dbChunks[5] = "a4"

\* ------------------------------------------------------------------------
\* C21: after any interleaving of the administrator's create, update and
\* regenerate-embeddings operations, the stored embedding of every knowledge
\* entry is the embedding function applied to its stored question text.
\* ------------------------------------------------------------------------
C21_EmbeddingOfStoredQuestion ==
    \A r \in knowledge_base : r.embedding = generateEmbedding(r.question)

\* ------------------------------------------------------------------------
\* C22: every queue row is created Pending with no resolved_at; a row's status
\* changes only from Pending to Resolved, only in the step in which an
\* administrator's create request stores the knowledge entry and answers 200,
\* and that step sets resolved_at; every Resolved row has resolved_at set; no
\* row goes back to Pending.
\* ------------------------------------------------------------------------
C22_ResolvedHasTimestamp ==
    \A r \in admin_queue :
       /\ r.status \in {"pending", "resolved"}
       /\ (r.status = "resolved") <=> (r.resolved_at # NULL)

C22_StatusStep ==
    /\ \A n \in admin_queue' :
          (~\E r \in admin_queue : r.id = n.id) =>
             n.status = "pending" /\ n.resolved_at = NULL
    /\ \A r \in admin_queue, n \in admin_queue' :
          (r.id = n.id /\ r.status # n.status) =>
             /\ r.status = "pending"
             /\ n.status = "resolved"
             /\ n.resolved_at # NULL
             /\ adminOps' = adminOps + 1
             /\ adminResponse' = "200"
             /\ \E k \in knowledge_base' : k \notin knowledge_base
    /\ \A r \in admin_queue, n \in admin_queue' :
          (r.id = n.id /\ r.status = "resolved") => n = r

C22_PendingToResolvedOnPromotion == []C22_ResolvedHasTimestamp /\ [][C22_StatusStep]_vars

\* a promoted row next to a row the pipeline added afterwards
C22_Witness ==
    /\ \E r \in admin_queue : r.status = "resolved" /\ r.resolved_at = "now"
    /\ \E r \in admin_queue : r.status = "pending"
    /\ \E t \in Tasks : tasks[t].outcome = "inserted"
    /\ adminOps = 1

\* ------------------------------------------------------------------------
\* C23: the duplicate check looks at Pending rows only.  A question whose only
\* rows with cosine similarity >= 0.85 are Resolved (a row that was deleted is
\* no row at all) passes the check and goes on to the insert, and the insert
\* the store accepts adds it as a new Pending row next to the Resolved one.
\* ------------------------------------------------------------------------
ResolvedNeighbourOf(queue, e) ==
    \E r \in queue : /\ r.status = "resolved"
                     /\ r.embedding # NullVector
                     /\ Similar85(r.embedding, e)

C23_Step ==
    \A t \in Tasks :
       /\ (CheckAnswers(t) /\ ~PendingDuplicateOf(admin_queue, tasks[t].embedding)) =>
             tasks'[t].tpc = "insert"
       /\ (CheckAnswers(t) /\ ResolvedNeighbourOf(admin_queue, tasks[t].embedding)
           /\ tasks'[t].outcome = "duplicate") =>
             PendingDuplicateOf(admin_queue, tasks[t].embedding)
       /\ (tasks[t].tpc = "insert" /\ tasks'[t].tpc = "done"
           /\ ResolvedNeighbourOf(admin_queue, tasks[t].embedding)) =>
             /\ tasks'[t].outcome \in {"inserted", "insertError", "threw"}
             /\ tasks'[t].outcome = "inserted" =>
                   \E n \in admin_queue' :
                      /\ n \notin admin_queue
                      /\ admin_queue' = admin_queue \cup {n}
                      /\ n.status = "pending"
                      /\ n.user_question = trim(tasks[t].question)

C23_ResolvedNeighboursDoNotBlock == [][C23_Step]_vars

\* "q1" was promoted, then "q2" (similarity 0.90) arrived and was inserted
C23_Witness ==
    /\ ~history.concurrent
    /\ ~history.checkError
    /\ \E r, p \in admin_queue :
          /\ r.status = "resolved" /\ r.user_question = "q1"
          /\ p.status = "pending" /\ p.user_question = "q2"
          /\ p.id > r.id
          /\ Similar85(r.embedding, p.embedding)
    /\ \E t \in Tasks : tasks[t].question = "q2" /\ tasks[t].outcome = "inserted"

\* ------------------------------------------------------------------------
\* C24: within one request the external calls are issued in the order
\* embedding, vector query, judge (only when chunks came back), generation,
\* each only after the one before it has returned: the query is sent in the
\* step the embedding returns, the judge only once the query has returned
\* chunks, a generator only once the verdict is in, each call at most once, and
\* the background enqueue is the only thing in flight beside another call
\* (the web generation).
\* ------------------------------------------------------------------------
GenerationCalls == calls.internal + calls.web

C24_CallOrder ==
    /\ calls.embed <= 1 /\ calls.search <= 1 /\ calls.judge <= 1 /\ GenerationCalls <= 1
    /\ pc = "embedding" => (calls.embed = 1 /\ calls.search = 0)
    /\ calls.search = 1 =>
          (calls.embed = 1 /\ queryEmbedding = generateEmbedding(question))
    /\ pc = "retrieving" => (calls.search = 1 /\ calls.judge = 0 /\ GenerationCalls = 0)
    /\ calls.judge = 1 =>
          (calls.search = 1 /\ Len(dbChunks) > 0 /\ pc \notin {"embedding", "retrieving"})
    /\ pc \in {"judging", "judgeWait", "judged"} => GenerationCalls = 0
    /\ GenerationCalls = 1 =>
          /\ judgment \in {"YES", "NO"}
          /\ judge.outcome \in {"replied", "failed", "skipped"}
          /\ calls.judge = (IF Len(dbChunks) > 0 THEN 1 ELSE 0)
          /\ calls.search = 1
          /\ calls[GeneratorFor(judgment)] = 1
    /\ \A t \in Tasks :
          tasks[t].tpc \in {"check", "insert"} =>
             (pc \in {"streaming", "done"} /\ calls.web = 1 /\ calls.enqueue = 1)

C24_CallStep ==
    /\ calls'.embed > calls.embed => pc = "idle"
    /\ calls'.search > calls.search => pc = "embedding"
    /\ calls'.judge > calls.judge => (pc = "judging" /\ calls' = [calls EXCEPT !.judge = @ + 1])
    /\ (calls'.internal > calls.internal \/ calls'.web > calls.web) => pc = "judged"
    /\ calls'.enqueue > calls.enqueue => (pc = "judged" /\ calls'.web > calls.web)

C24_ExternalCallsInOrder == []C24_CallOrder /\ [][C24_CallStep]_vars

\* the web generation under way after a judge verdict, the enqueue beside it
C24_Witness ==
    /\ pc = "streaming"
    /\ calls.embed = 1 /\ calls.search = 1 /\ calls.judge = 1 /\ calls.web = 1
    /\ judge.outcome = "replied"
    /\ tasks[1].tpc = "check"
    /\ gen.gpc # "idle"

\* ------------------------------------------------------------------------
\* C25: a request with a session, each of whose external calls returns or
\* fails, comes to its end, and at its end it has either a stream that was
\* closed after its last element, that element being a source footer (the
\* knowledge-base trailer, the web-search trailer or the last numbered source
\* line) or the error line, or a 400/500 response and no stream; never a stream
\* still open, errored, or ended on an answer text.
\* ------------------------------------------------------------------------
LastOut(g) == g.out[Len(g.out)]

EndsWithFooter(g) ==
    /\ Len(g.out) >= 1
    /\ g.ended
    /\ ~g.failed
    /\ \/ LastOut(g) \in {InternalFooter, WebGenericFooter}
       \/ /\ Len(g.uniqueSources) >= 1
          /\ LastOut(g) = SourceLine(Len(g.uniqueSources) - 1,
                                     g.uniqueSources[Len(g.uniqueSources)])

EndsWithErrorLine(g) ==
    /\ Len(g.out) >= 1
    /\ g.failed
    /\ LastOut(g) = ErrorLine(g.kind)

ClosedAfterLastElement ==
    /\ response = "stream"
    /\ streamState = "closed"
    /\ gen.gpc = "done"
    /\ gen.out = AnswerOf(gen)
    /\ EndsWithFooter(gen) # EndsWithErrorLine(gen)

TopLevelError ==
    /\ response \in {"400", "500"}
    /\ streamState = "none"
    /\ gen = GenIdle

C25_EndOfRequest ==
    /\ (pc = "done" /\ response # "401") => (ClosedAfterLastElement # TopLevelError)
    /\ streamState \in {"open", "closed"} => response = "stream"
    /\ streamState \notin {"errored", "cancelled"}

C25_EndsClosedOrWithError ==
    /\ []C25_EndOfRequest
    /\ (pc \notin {"idle", "done"}) ~> (pc = "done")
    /\ [][pc = "done" => pc' = "done" /\ streamState' = streamState /\ gen' = gen]_vars

\* a web answer that failed after one text, its stream closed on the error line
C25_Witness ==
    /\ pc = "done"
    /\ response = "stream"
    /\ streamState = "closed"
    /\ gen.kind = "web"
    /\ gen.out = << "a", WebError >>

\* ------------------------------------------------------------------------
\* C26: if the addToAdminQueue tasks have run one at a time, no duplicate check
\* has returned an error and every Pending row holds an embedding, then no two
\* Pending rows have cosine similarity >= 0.85, whatever enqueues, promotions
\* and deletions came before.
\* ------------------------------------------------------------------------
EveryPendingHasEmbedding ==
    \A r \in Pending(admin_queue) : r.embedding # NullVector

C26_SequentialEnqueuesKeepPendingApart ==
    (~history.concurrent /\ ~history.checkError /\ EveryPendingHasEmbedding) =>
       \A r, o \in Pending(admin_queue) :
          r.id # o.id => ~Similar85(r.embedding, o.embedding)

\* the row without embedding promoted, "q2" and "q3" (0.80 apart) enqueued
C26_Witness ==
    /\ ~history.concurrent
    /\ ~history.checkError
    /\ EveryPendingHasEmbedding
    /\ \E r \in admin_queue : r.status = "resolved" /\ r.embedding = NullVector
    /\ Cardinality(Pending(admin_queue)) = 2
    /\ \A t \in 1..2 : tasks[t].tpc = "done" /\ tasks[t].outcome = "inserted"

\* ------------------------------------------------------------------------
\* C27: a duplicate check that returns an error result sends the task on to
\* the insert of its question as Pending, even with a similar Pending row in
\* the queue; a duplicate check that throws ends the task at once with the
\* queue untouched, and the ended task attempts nothing afterwards (rows are
\* added only by a task standing at its insert).
\* ------------------------------------------------------------------------
C27_Step ==
    \A t \in Tasks :
       /\ (tasks[t].tpc = "check" /\ tasks'[t].tpc # "check") =>
             /\ tasks'[t].checkError =>
                   (tasks'[t].tpc = "insert" /\ tasks'[t].outcome = "none")
             /\ tasks'[t].outcome = "threw" =>
                   /\ tasks'[t].tpc = "done"
                   /\ ~tasks'[t].checkError
                   /\ admin_queue' = admin_queue
             /\ tasks'[t].tpc \in {"insert", "done"}
       /\ tasks[t].tpc = "done" => tasks'[t] = tasks[t]
       /\ (tasks[t].checkError /\ InsertSucceeds(t)) =>
             \E n \in admin_queue' :
                /\ n \notin admin_queue
                /\ n.status = "pending"
                /\ n.user_question = trim(tasks[t].question)
       /\ (\E n \in admin_queue' : \A r \in admin_queue : r.id # n.id) =>
             \E u \in Tasks : tasks[u].tpc = "insert" /\ tasks'[u].outcome = "inserted"

C27_CheckErrorInsertsCheckThrowStops == [][C27_Step]_vars

\* "q1" is Pending; the check for "q2" returned an error and "q2" was inserted
C27_Witness ==
    /\ tasks[1].outcome = "inserted" /\ tasks[1].question = "q1"
    /\ tasks[2].checkError /\ tasks[2].outcome = "inserted" /\ tasks[2].question = "q2"
    /\ ~tasks[2].overlapped
    /\ PendingWith("q1") /\ PendingWith("q2")

\* ------------------------------------------------------------------------
\* C28: in both generators a source footer (the knowledge-base trailer, the
\* sources header with its numbered lines, or the web-search trailer) is in
\* the output exactly when the underlying stream completed without failure;
\* when the failure comes after k >= 1 texts were yielded, the output is those
\* k texts followed by the error string, k + 1 elements, and no footer.
\* ------------------------------------------------------------------------
FooterElements(g) ==
    { n \in 1..Len(g.out) :
         \/ g.out[n] \in {InternalFooter, WebSourcesHeader, WebGenericFooter}
         \/ \E k \in 1..Len(g.uniqueSources) :
               g.out[n] = SourceLine(k - 1, g.uniqueSources[k]) }

C28_FooterIffCompleted ==
    /\ (FooterElements(gen) # {}) <=> gen.ended
    /\ gen.ended => (~gen.failed /\ gen.gpc \in {"footer", "done"})
    /\ gen.gpc = "done" => (gen.ended # gen.failed)
    /\ gen.failed =>
          /\ FooterElements(gen) = {}
          /\ gen.uniqueSources = << >>
    /\ (gen.failed /\ Len(YieldedTexts(gen)) >= 1) =>
          /\ Len(gen.out) = Len(YieldedTexts(gen)) + 1
          /\ SubSeq(gen.out, 1, Len(gen.out) - 1) = YieldedTexts(gen)
          /\ gen.out[Len(gen.out)] = ErrorLine(gen.kind)

\* the knowledge-base generator failing after two texts
C28_Witness ==
    /\ gen.kind = "internal"
    /\ gen.failed
    /\ gen.gpc = "done"
    /\ gen.out = << "a", "b", InternalError >>

\* ------------------------------------------------------------------------
\* C29: whenever a create request sent with a queueId has answered 200, the
\* queue row it names is Resolved with resolved_at set, also when the status
\* update failed at the store.
\* ------------------------------------------------------------------------
C29_SuccessMeansResolved ==
    \A s \in AdminSlots :
       (/\ adminReqs[s].op = "post"
        /\ adminReqs[s].rpc = "done"
        /\ adminReqs[s].status = "200"
        /\ adminReqs[s].queueId # 0) =>
          \E r \in admin_queue :
             /\ r.id = adminReqs[s].queueId
             /\ r.status = "resolved"
             /\ r.resolved_at # NULL

\* ------------------------------------------------------------------------
\* C30: a promotion marks the queue row Resolved only after the knowledge
\* entry was stored.  When the embedding call or the knowledge insert fails,
\* the request answers 500 in that step, having stored no knowledge entry and
\* leaving the queue as it was (the row Pending, resolved_at unset); the queue
\* update is reached only by a request whose knowledge entry was stored, and a
\* row changes status only in the queue update of such a request.
\* ------------------------------------------------------------------------
FailedBeforeStoring(req) ==
    req.op = "post" /\ req.failure \in {"embedding", "insert"}

C30_Promotion ==
    \A s \in AdminSlots :
       /\ FailedBeforeStoring(adminReqs[s]) =>
             /\ adminReqs[s].rpc = "done"
             /\ adminReqs[s].status = "500"
             /\ ~adminReqs[s].kbWritten
             /\ ~adminReqs[s].queueWritten
             /\ (\A o \in AdminSlots \ {s} : adminReqs[o].rpc = "idle") =>
                   (knowledge_base = KnowledgeInit /\ admin_queue = QueueAfterQ1)
       /\ (adminReqs[s].op = "post" /\ adminReqs[s].rpc = "queueUpdate") =>
             adminReqs[s].kbWritten
       /\ adminReqs[s].queueWritten => adminReqs[s].kbWritten

C30_PromotionStep ==
    /\ \A s \in AdminSlots :
          (~FailedBeforeStoring(adminReqs[s]) /\ FailedBeforeStoring(adminReqs'[s])) =>
             (knowledge_base' = knowledge_base /\ admin_queue' = admin_queue)
    /\ \A s \in AdminSlots :
          (adminReqs[s].op = "post" /\ adminReqs[s].rpc = "insert"
           /\ adminReqs'[s].rpc = "queueUpdate") =>
             \E k \in knowledge_base' :
                /\ k \notin knowledge_base
                /\ k.question = trim(adminReqs[s].question)
                /\ k.embedding = adminReqs[s].embedding
    /\ \A r \in admin_queue, n \in admin_queue' :
          (r.id = n.id /\ r # n) =>
             \E s \in AdminSlots :
                /\ adminReqs[s].rpc = "queueUpdate"
                /\ adminReqs[s].queueId = r.id
                /\ adminReqs[s].kbWritten
                /\ r.status = "pending"
                /\ n.status = "resolved"

C30_ResolvedOnlyAfterPersisted == []C30_Promotion /\ [][C30_PromotionStep]_vars

\* a promotion of row 3 whose knowledge insert failed
C30_Witness ==
    \E s \in AdminSlots :
       /\ adminReqs[s].op = "post"
       /\ adminReqs[s].queueId = 3
       /\ adminReqs[s].failure = "insert"
       /\ adminReqs[s].status = "500"
       /\ \E r \in admin_queue : r.id = 3 /\ r.status = "pending" /\ r.resolved_at = NULL
       /\ \A k \in knowledge_base : k.question # trim(adminReqs[s].question)

====
